---- MODULE Spec2Model ----
(***************************************************************************)
(* Model of the reporting pipeline of the Playwright E2E framework:        *)
(*   - SquashTMClient (src/src/integrations/SquashTM.ts)                   *)
(*   - EmailReporter.sendReport (src/unnamed/part_001, EmailReporter.ts)   *)
(*   - the Playwright JSON report parser (src/src/utils/sendEmailReport.ts)*)
(*                                                                         *)
(* JavaScript values are represented as follows.                           *)
(*   - an optional string field is a TLA+ string, Undefined when absent;   *)
(*   - an optional number field is an integer, NoNumber when absent;       *)
(*   - a string that the code scans character by character (a squashId)    *)
(*     is a sequence of one-character strings;                             *)
(*   - `string | null` results are records [isNull, str].                  *)
(* Timestamps (new Date(), Date.now()) are not modelled.                   *)
(***************************************************************************)
EXTENDS Integers, Sequences, FiniteSets, TLC

\* ------------------------------------------------------------------ bounds
\* longest list handed to reportDDTResults
MaxBatch == 2

\* ------------------------------------------------------- value conventions
Undefined == "undefined"
NoNumber == 0 - 1

TruthyStr(s) == s # Undefined /\ s # ""
TruthyNum(n) == n # NoNumber /\ n # 0

Null == [isNull |-> TRUE, str |-> <<>>]
Str(s) == [isNull |-> FALSE, str |-> s]

Digits == {"0", "1", "2", "3", "4", "5", "6", "7", "8", "9"}

Last(s) == s[Len(s)]

\* ---------------------------------------------------------------- SquashTM
SquashTestStatus == {"PASSED", "FAILED", "BLOCKED", "NOT_RUN", "UNTESTABLE", "SETTLED"}

\* squashId inputs: CAMP-4-TC-101, tc-7 (lower case), CAMP-4 (no TC part),
\* TC- (marker without digits)
IdCampTc101 == <<"C", "A", "M", "P", "-", "4", "-", "T", "C", "-", "1", "0", "1">>
IdLowerTc7 == <<"t", "c", "-", "7">>
IdNoTc == <<"C", "A", "M", "P", "-", "4">>
IdTcNoDigits == <<"T", "C", "-">>
SquashIds == {IdCampTc101, IdLowerTc7, IdNoTc, IdTcNoDigits}

ScreenshotFile == "shot.png"

\* TestExecutionResult values handed to a single reportResult call
TestExecutionResult ==
    [squashId : SquashIds,
     status : SquashTestStatus,
     comment : {Undefined, "note"},
     screenshotPath : {Undefined, "", ScreenshotFile},
     duration : {NoNumber, 0, 1500},
     iterationIndex : {NoNumber, 0, 7},
     iterationData : {Undefined, "user=a"}]

\* TestExecutionResult values used as elements of a reportDDTResults batch
DDTElement ==
    [squashId : {IdCampTc101, IdNoTc},
     status : {"PASSED", "FAILED"},
     comment : {Undefined},
     screenshotPath : {Undefined, ScreenshotFile},
     duration : {NoNumber},
     iterationIndex : {NoNumber, 7},
     iterationData : {Undefined}]

DDTBatches == UNION {[1..n -> DDTElement] : n \in 0..MaxBatch}

\* errors a remote call can be rejected with
RemoteErrors == {"Network Error", "Request failed with status code 500"}

\* /TC-(\d+)/i matched at position p of s
TcMatchAt(s, p) ==
    /\ p + 3 <= Len(s)
    /\ s[p] \in {"T", "t"}
    /\ s[p + 1] \in {"C", "c"}
    /\ s[p + 2] = "-"
    /\ s[p + 3] \in Digits

\* extractTestCaseId: first match of /TC-(\d+)/i, group 1 (greedy digits)
extractTestCaseId(squashId) ==
    LET hits == {p \in 1..Len(squashId) : TcMatchAt(squashId, p)}
    IN IF hits = {} THEN Null
       ELSE LET p == CHOOSE q \in hits : \A r \in hits : q <= r
                e == CHOOSE q \in (p + 3)..Len(squashId) :
                        /\ \A k \in (p + 3)..q : squashId[k] \in Digits
                        /\ (q = Len(squashId) \/ squashId[q + 1] \notin Digits)
            IN Str(SubSeq(squashId, p + 3, e))

\* the comment built by reportResult (lines 105-114)
BuildComment(result) ==
    LET c0 == IF TruthyStr(result.comment) THEN result.comment ELSE ""
        c1 == IF result.iterationIndex # NoNumber
              THEN LET c == "[DDT Iteration " \o ToString(result.iterationIndex + 1) \o "] " \o c0
                   IN IF TruthyStr(result.iterationData)
                      THEN c \o "\nTest Data: " \o result.iterationData
                      ELSE c
              ELSE c0
    IN IF TruthyNum(result.duration)
       THEN c1 \o "\nDuration: " \o ToString(result.duration) \o "ms"
       ELSE c1

\* ------------------------------------------------------------ state
VARIABLES
    enabled,      \* SquashTMClient.enabled, set by the constructor
    files,        \* paths that exist on disk
    op,           \* the API operation the caller invoked: none, reportResult, reportDDTResults, sendReport
    caller,       \* the API call in progress: idle, reportResult, reportDDTResults, sendReport, done
    results,      \* the array handed to reportDDTResults
    i,            \* loop index of reportDDTResults
    cur,          \* the result handed to the running reportResult
    testCaseId,   \* local testCaseId of the running reportResult
    pc,           \* position of the running reportResult: idle, patch, post, ret, threw
    ret,          \* value the running reportResult resolved to
    inflight,     \* remote calls started and not yet answered
    sent,         \* every remote call issued, in order
    remote,       \* remote calls the server accepted, in order
    rejected,     \* remote calls and file reads that failed, in order
    calls,        \* arguments of the reportResult invocations, in order
    rets,         \* values the finished reportResult invocations resolved to, in order
    outcome,      \* how the API call ended, as seen by its caller
    log           \* logger calls, in order

squashVars == <<enabled, files, op, caller, results, i, cur, testCaseId, pc, ret,
                inflight, sent, remote, rejected, calls, rets, outcome, log>>

NoResult == [none |-> TRUE]
Pending == [kind |-> "pending"]
Returned(v) == [kind |-> "returned", value |-> v]
ReturnedVoid == [kind |-> "returned"]
Threw(e) == [kind |-> "threw", error |-> e]

LogEntry(level, msg, detail) == [level |-> level, msg |-> msg, detail |-> detail]

\* line 96: if (!this.enabled)
ReportResultDisabled_Never(en) == FALSE

ReportResultDisabled(en) == ~en

\* line 188: if (!this.enabled)
ReportDDTResultsDisabled(en) == ~en

\* line 133: this.client.patch(`/iterations/${testCaseId}/test-plan`, payload)
PatchRequest_Passed(tc, result) ==
    [method |-> "PATCH",
     url |-> <<"iterations", tc, "test-plan">>,
     executionStatus |-> "PASSED",
     comment |-> BuildComment(result)]

PatchRequest(tc, result) ==
    [method |-> "PATCH",
     url |-> <<"iterations", tc, "test-plan">>,
     executionStatus |-> result.status,
     comment |-> BuildComment(result)]

\* lines 171-175: this.client.post(`/iterations/${testCaseId}/attachments`, ...)
AttachmentRequest(tc, path) ==
    [method |-> "POST",
     url |-> <<"iterations", tc, "attachments">>,
     content |-> path,
     contentType |-> "image/png"]

\* line 136: result.screenshotPath && result.status === SquashTestStatus.FAILED
ShouldUpload_AnyStatus(result) == TruthyStr(result.screenshotPath)

ShouldUpload(result) ==
    TruthyStr(result.screenshotPath) /\ result.status = "FAILED"

\* line 168: fs.readFileSync(screenshotPath)
ReadFile(path) == [method |-> "readFileSync", path |-> path]

\* line 163: fs.existsSync(screenshotPath)
existsSync(fs, path) == path \in fs

\* lines 142-146: catch of reportResult
ReportResultCatch_Rethrow(err) == [threw |-> TRUE, value |-> FALSE]

ReportResultCatch_True(err) == [threw |-> FALSE, value |-> TRUE]

ReportResultCatch(err) == [threw |-> FALSE, value |-> FALSE]

\* lines 178-181: catch of uploadScreenshot
UploadScreenshotCatch_Rethrow(err) == [threw |-> TRUE]

UploadScreenshotCatch(err) == [threw |-> FALSE]

\* line 195: { ...results[i], iterationIndex: i }   (i is zero-based)
IterationResult_KeepIndex(rs, k) == rs[k + 1]

IterationResult(rs, k) == [rs[k + 1] EXCEPT !.iterationIndex = k]

\* line 195: what building { ...results[i], iterationIndex: i } does to the
\* caller's array: the spread copies the element's properties into a new
\* object, so the array and its elements stay as they are
InputAfterSpread_Assign(rs, k) == [rs EXCEPT ![k + 1].iterationIndex = k]

InputAfterSpread(rs, k) == rs

\* line 196: await this.reportResult(result)
LoopAwaitsReportResult_No == FALSE

LoopAwaitsReportResult == TRUE

\* line 119: if (!testCaseId)
NoTestCaseId_Never(tc) == FALSE

NoTestCaseId(tc) == tc.isNull \/ tc.str = <<>>

\* The synchronous part of reportResult, lines 95-133: up to the first await
\* or to an early return.
ReportResultEnter(en, result) ==
    IF ReportResultDisabled(en)
    THEN [pc |-> "ret", ret |-> FALSE, tc |-> Null, reqs |-> <<>>,
          log |-> <<LogEntry("debug", "Squash TM reporting is disabled", "")>>]
    ELSE LET tc == extractTestCaseId(result.squashId)
             l0 == LogEntry("info", "Reporting result to Squash TM", "")
         IN IF NoTestCaseId(tc)
            THEN [pc |-> "ret", ret |-> FALSE, tc |-> tc, reqs |-> <<>>,
                  log |-> <<l0, LogEntry("warn", "Could not extract test case ID", "")>>]
            ELSE [pc |-> "patch", ret |-> FALSE, tc |-> tc,
                  reqs |-> <<PatchRequest(tc.str, result)>>,
                  log |-> <<l0>>]

\* The outcome of an error thrown inside reportResult's try block.
ReportResultFail(err) ==
    LET c == ReportResultCatch(err)
    IN [pc |-> IF c.threw THEN "threw" ELSE "ret",
        ret |-> c.value,
        log |-> IF c.threw THEN <<>>
                ELSE <<LogEntry("error", "Failed to report to Squash TM", err)>>]

\* lines 140-141
ReportResultSuccess ==
    [pc |-> "ret", ret |-> TRUE,
     log |-> <<LogEntry("info", "Successfully reported result", "")>>]

\* The outcome of an error thrown inside uploadScreenshot's try block:
\* caught there (lines 178-181), after which reportResult goes on to line 140.
UploadFail(err) ==
    IF UploadScreenshotCatch(err).threw
    THEN ReportResultFail(err)
    ELSE [ReportResultSuccess EXCEPT
            !.log = <<LogEntry("error", "Failed to upload screenshot", err)>> \o @]

\* lines 62-70: the request defaults the constructor gives axios.create; no
\* signal or cancel token is set, there or on any call
ClientConfig_NoTimeout == [timeout |-> 0, signal |-> Undefined]

ClientConfig == [timeout |-> 30000, signal |-> Undefined]

\* a request as the client has it in flight: the n-th it sent, under the
\* client's defaults
Stamp(req, n) ==
    [req |-> req, n |-> n, timeout |-> ClientConfig.timeout, signal |-> ClientConfig.signal]

\* start reportResult(result): run it up to its first await; pre holds the
\* log lines the caller wrote just before the call
InvokeReportResult(result, pre) ==
    LET e == ReportResultEnter(enabled, result)
    IN /\ cur' = result
       /\ calls' = Append(calls, result)
       /\ testCaseId' = e.tc
       /\ pc' = e.pc
       /\ ret' = e.ret
       /\ sent' = sent \o e.reqs
       /\ inflight' = inflight \cup {Stamp(e.reqs[k], Len(sent) + k) : k \in 1..Len(e.reqs)}
       /\ log' = (log \o pre) \o e.log

TypeOK ==
    /\ enabled \in BOOLEAN
    /\ files \subseteq {ScreenshotFile}
    /\ caller \in {"idle", "reportResult", "reportDDTResults", "sendReport", "done"}
    /\ pc \in {"idle", "patch", "post", "ret", "threw"}
    /\ ret \in BOOLEAN
    /\ i \in 0..(MaxBatch + 1)

InitSquash ==
    /\ enabled \in BOOLEAN
    /\ files \in SUBSET {ScreenshotFile}
    /\ op = "none"
    /\ caller = "idle"
    /\ results = <<>>
    /\ i = 0
    /\ cur = NoResult
    /\ testCaseId = Null
    /\ pc = "idle"
    /\ ret = FALSE
    /\ inflight = {}
    /\ sent = <<>>
    /\ remote = <<>>
    /\ rejected = <<>>
    /\ calls = <<>>
    /\ rets = <<>>
    /\ outcome = Pending
    /\ log = <<>>

\* a caller invokes reportResult(result)
ReportResultCall ==
    /\ caller = "idle"
    /\ \E result \in TestExecutionResult :
          InvokeReportResult(result, <<>>)
    /\ caller' = "reportResult"
    /\ op' = "reportResult"
    /\ UNCHANGED <<enabled, files, results, i, remote, rejected, rets, outcome>>

\* a caller invokes reportDDTResults(results): lines 187-196, up to the first await
ReportDDTResultsCall ==
    /\ caller = "idle"
    /\ \E rs \in DDTBatches :
          /\ results' = IF ReportDDTResultsDisabled(enabled) \/ Len(rs) = 0
                         THEN rs
                         ELSE InputAfterSpread(rs, 0)
          /\ i' = 0
          /\ IF ReportDDTResultsDisabled(enabled)
             THEN /\ caller' = "done"
                  /\ outcome' = ReturnedVoid
                  /\ UNCHANGED <<cur, calls, testCaseId, pc, ret, sent, inflight, log>>
             ELSE IF Len(rs) = 0
                  THEN /\ caller' = "done"
                       /\ outcome' = ReturnedVoid
                       /\ log' = Append(log, LogEntry("info", "Reporting DDT iteration results", ""))
                       /\ UNCHANGED <<cur, calls, testCaseId, pc, ret, sent, inflight>>
                  ELSE /\ caller' = "reportDDTResults"
                       /\ outcome' = outcome
                       /\ InvokeReportResult(IterationResult(rs, 0),
                             <<LogEntry("info", "Reporting DDT iteration results", "")>>)
    /\ op' = "reportDDTResults"
    /\ UNCHANGED <<enabled, files, remote, rejected, rets>>

\* the remote system accepts the PATCH; reportResult resumes at line 135 and
\* runs to its return or to the attachment POST of uploadScreenshot
PatchResolve ==
    /\ pc = "patch"
    /\ IF ShouldUpload(cur)
       THEN IF ~existsSync(files, cur.screenshotPath)
            THEN /\ pc' = "ret"
                 /\ ret' = TRUE
                 /\ log' = (log \o <<LogEntry("warn", "Screenshot file not found", "")>>)
                              \o ReportResultSuccess.log
                 /\ sent' = sent
                 /\ rejected' = rejected
            ELSE \E readOk \in BOOLEAN :
                    IF readOk
                    THEN /\ pc' = "post"
                         /\ ret' = ret
                         /\ log' = log
                         /\ rejected' = rejected
                         /\ sent' = Append(sent, AttachmentRequest(testCaseId.str, cur.screenshotPath))
                    ELSE LET f == UploadFail("EACCES: permission denied")
                         IN /\ pc' = f.pc
                            /\ ret' = f.ret
                            /\ log' = log \o f.log
                            /\ sent' = sent
                            /\ rejected' = Append(rejected, ReadFile(cur.screenshotPath))
       ELSE /\ pc' = ReportResultSuccess.pc
            /\ ret' = ReportResultSuccess.ret
            /\ log' = log \o ReportResultSuccess.log
            /\ sent' = sent
            /\ rejected' = rejected
    /\ \E r \in inflight :
          /\ r.req.method = "PATCH"
          /\ inflight' = (inflight \ {r}) \cup
                (IF pc' = "post"
                 THEN {Stamp(AttachmentRequest(testCaseId.str, cur.screenshotPath), Len(sent) + 1)}
                 ELSE {})
          /\ remote' = Append(remote, r.req)
    /\ UNCHANGED <<enabled, files, op, caller, results, i, cur, testCaseId, calls, rets,
                   outcome>>

\* the PATCH fails: control passes to the catch of reportResult
PatchReject ==
    /\ pc = "patch"
    /\ \E r \in inflight, err \in RemoteErrors :
          /\ r.req.method = "PATCH"
          /\ inflight' = inflight \ {r}
          /\ rejected' = Append(rejected, r.req)
          /\ LET f == ReportResultFail(err)
             IN /\ pc' = f.pc
                /\ ret' = f.ret
                /\ log' = log \o f.log
    /\ UNCHANGED <<enabled, files, op, caller, results, i, cur, testCaseId, sent, remote,
                   calls, rets, outcome>>

\* the remote system accepts the attachment; uploadScreenshot returns and
\* reportResult returns true
PostResolve ==
    /\ pc = "post"
    /\ \E r \in inflight :
          /\ r.req.method = "POST"
          /\ inflight' = inflight \ {r}
          /\ remote' = Append(remote, r.req)
    /\ pc' = ReportResultSuccess.pc
    /\ ret' = ReportResultSuccess.ret
    /\ log' = (log \o <<LogEntry("info", "Screenshot uploaded", "")>>) \o ReportResultSuccess.log
    /\ UNCHANGED <<enabled, files, op, caller, results, i, cur, testCaseId, sent, rejected,
                   calls, rets, outcome>>

\* the attachment POST fails: control passes to the catch of uploadScreenshot
PostReject ==
    /\ pc = "post"
    /\ \E r \in inflight, err \in RemoteErrors :
          /\ r.req.method = "POST"
          /\ inflight' = inflight \ {r}
          /\ rejected' = Append(rejected, r.req)
          /\ LET f == UploadFail(err)
             IN /\ pc' = f.pc
                /\ ret' = f.ret
                /\ log' = log \o f.log
    /\ UNCHANGED <<enabled, files, op, caller, results, i, cur, testCaseId, sent, remote,
                   calls, rets, outcome>>

\* the promise of a directly called reportResult settles
ReportResultReturn ==
    /\ caller = "reportResult"
    /\ pc \in {"ret", "threw"}
    /\ outcome' = IF pc = "ret" THEN Returned(ret) ELSE Threw("reportResult")
    /\ rets' = IF pc = "ret" THEN Append(rets, ret) ELSE rets
    /\ caller' = "done"
    /\ pc' = "idle"
    /\ UNCHANGED <<enabled, files, op, results, i, cur, testCaseId, ret, inflight, sent,
                   remote, rejected, calls, log>>

\* reportDDTResults resumes after `await this.reportResult(result)`:
\* i++, then the next iteration or the end of the loop (lines 194-198)
ReportDDTResultsStep ==
    /\ caller = "reportDDTResults"
    /\ IF LoopAwaitsReportResult THEN pc \in {"ret", "threw"} ELSE pc # "idle"
    /\ i' = i + 1
    /\ rets' = IF pc = "ret" THEN Append(rets, ret) ELSE rets
    /\ IF pc = "threw"
       THEN /\ outcome' = Threw("reportResult")
            /\ caller' = "done"
            /\ pc' = "idle"
            /\ UNCHANGED <<cur, calls, testCaseId, ret, sent, inflight, log>>
       ELSE IF i + 1 < Len(results)
            THEN /\ InvokeReportResult(IterationResult(results, i + 1), <<>>)
                 /\ UNCHANGED <<outcome, caller>>
            ELSE /\ pc \in {"ret", "threw"}
                 /\ outcome' = ReturnedVoid
                 /\ caller' = "done"
                 /\ pc' = "idle"
                 /\ UNCHANGED <<cur, calls, testCaseId, ret, sent, inflight, log>>
    /\ results' = IF pc # "threw" /\ i + 1 < Len(results)
                   THEN InputAfterSpread(results, i + 1)
                   ELSE results
    /\ UNCHANGED <<enabled, files, op, remote, rejected>>

\* ----------------------------------------------------------- EmailReporter
\* largest passed / failed / skipped count of a summary handed to sendReport
MaxCount == 1

VARIABLES
    template,     \* templates/email-report.html as generateHtmlReport found it:
                  \* unread, absent, readable or unreadable
    mailData,     \* the EmailReportData handed to sendReport
    mailInflight, \* the sendMail call started and not yet answered
    mailbox       \* mails the transport accepted, in order

emailVars == <<template, mailData, mailInflight, mailbox>>

ValidDate == [valid |-> TRUE, iso |-> "2024-01-01T00:00:00.000Z"]
InvalidDate == [valid |-> FALSE, iso |-> "Invalid Date"]

Upper(str) ==
    CASE str = "qa" -> "QA"
      [] str = "passed" -> "PASSED"
      [] str = "failed" -> "FAILED"
      [] str = "skipped" -> "SKIPPED"
      [] str = "timedOut" -> "TIMEDOUT"
      [] str = "interrupted" -> "INTERRUPTED"
      [] str = "json" -> "JSON"
      [] str = "yaml" -> "YAML"
      [] str = "xml" -> "XML"
      [] OTHER -> str

TestResultSummary ==
    {sm \in [totalTests : 0..(3 * MaxCount + 1),
             passed : 0..MaxCount,
             failed : 0..MaxCount,
             skipped : 0..MaxCount,
             duration : {125000},
             startTime : {ValidDate, InvalidDate},
             endTime : {ValidDate},
             environment : {"qa"},
             browserName : {"chromium"}] :
        sm.totalTests - (sm.passed + sm.failed + sm.skipped) \in {0, 1}}

\* TestResult lists handed to sendReport
SampleTests ==
    {<<>>,
     <<[name |-> "login", status |-> "failed", duration |-> 340,
        error |-> Str(<<"b", "o", "o", "m">>), retries |-> 1]>>}

EmailReportData ==
    [summary : TestResultSummary,
     tests : SampleTests,
     projectName : {Undefined},
     buildUrl : {"#"}]

AttachmentPaths == {<<>>, <<ScreenshotFile>>}

MailErrors == {"ECONNREFUSED"}

\* Numbers are IEEE-754 doubles. A positive double is kept exactly as
\* [a, b, c, exp]: its 53-bit significand is a * Limb^2 + b * Limb + c, with
\* a of 17 bits and b, c of 18, and its value is significand * 2^exp.
LimbBits == 18

RECURSIVE Pow2(_)
Pow2(n) == IF n = 0 THEN 1 ELSE 2 * Pow2(n - 1)

Limb == Pow2(LimbBits)

\* the number of doublings of x that bring it to at least y
RECURSIVE ShiftsUp(_, _)
ShiftsUp(x, y) == IF x >= y THEN 0 ELSE 1 + ShiftsUp(2 * x, y)

\* the number of doublings of y that keep it at most x
RECURSIVE ShiftsDown(_, _)
ShiftsDown(x, y) == IF x < 2 * y THEN 0 ELSE 1 + ShiftsDown(x, 2 * y)

\* the next double above x
NextUp(x) ==
    IF x.c + 1 < Limb THEN [x EXCEPT !.c = x.c + 1]
    ELSE IF x.b + 1 < Limb THEN [x EXCEPT !.c = 0, !.b = x.b + 1]
    ELSE IF x.a + 1 < Pow2(LimbBits - 1) THEN [x EXCEPT !.c = 0, !.b = 0, !.a = x.a + 1]
    ELSE [a |-> Pow2(LimbBits - 2), b |-> 0, c |-> 0, exp |-> x.exp + 1]

\* x / y for integers x, y > 0 (y below 2^13), rounded to nearest, ties to
\* even: long division of the quotient's 53 bits, limb by limb
DivideDouble(x, y) ==
    LET up == ShiftsUp(x, y)
        down == ShiftsDown(x, y)
        num == x * Pow2(up)
        den == y * Pow2(down)
        a == (num * Pow2(LimbBits - 2)) \div den
        ra == (num * Pow2(LimbBits - 2)) % den
        b == (ra * Limb) \div den
        rb == (ra * Limb) % den
        c == (rb * Limb) \div den
        rc == (rb * Limb) % den
        q == [a |-> a, b |-> b, c |-> c, exp |-> (down - up) - (3 * LimbBits - 2)]
    IN IF 2 * rc > den \/ (2 * rc = den /\ c % 2 = 1) THEN NextUp(q) ELSE q

\* x * m for a double x and an integer m from 64 to 127, rounded to nearest,
\* ties to even
TimesDouble(x, m) ==
    LET c0 == (x.c * m) % Limb
        b1 == (x.b * m) + ((x.c * m) \div Limb)
        b0 == b1 % Limb
        a1 == (x.a * m) + (b1 \div Limb)
        d == IF a1 < Pow2(LimbBits + 5) THEN 6 ELSE 7
        low == c0 % Pow2(d)
        r == [a |-> a1 \div Pow2(d),
              b |-> (b0 \div Pow2(d)) + ((a1 % Pow2(d)) * Pow2(LimbBits - d)),
              c |-> (c0 \div Pow2(d)) + ((b0 % Pow2(d)) * Pow2(LimbBits - d)),
              exp |-> x.exp + d]
    IN IF low > Pow2(d - 1) \/ (low = Pow2(d - 1) /\ r.c % 2 = 1) THEN NextUp(r) ELSE r

\* Math.round(x) for a double x with 0 < x < 2^16: the nearest integer,
\* halves upward
MathRound(x) ==
    LET f == (0 - x.exp) - 2 * LimbBits
    IN IF f > LimbBits - 1 THEN 0
       ELSE (x.a \div Pow2(f)) + ((x.a \div Pow2(f - 1)) % 2)

\* line 109 and line 127: Math.round((passed / totalTests) * 100)
RoundedPercent(passed, totalTests) ==
    IF passed = 0 THEN 0 ELSE MathRound(TimesDouble(DivideDouble(passed, totalTests), 100))

\* the pass rate as the text String() gives; 0 / 0 is NaN and n / 0 Infinity
PassRate_ZeroOfNone(summary) ==
    IF summary.totalTests = 0 THEN "0"
    ELSE ToString(RoundedPercent(summary.passed, summary.totalTests))

PassRate(summary) ==
    IF summary.totalTests = 0
    THEN IF summary.passed = 0 THEN "NaN" ELSE "Infinity"
    ELSE ToString(RoundedPercent(summary.passed, summary.totalTests))

\* line 108: the status the subject opens with
SubjectStatus(summary) ==
    IF summary.failed > 0 THEN "FAILED-GLYPH FAILED" ELSE "PASSED-GLYPH PASSED"

\* generateSubject, lines 107-111
generateSubject(summary) ==
    (((((((SubjectStatus(summary))
       \o " | Test Report | ") \o PassRate(summary)) \o "% Pass Rate | ")
       \o Upper(summary.environment)) \o " | ") \o ToString(summary.totalTests)) \o " Tests"

\* getStatusColor, lines 249-260
getStatusColor(status) ==
    CASE status = "passed" -> "#28a745"
      [] status = "failed" -> "#dc3545"
      [] status = "skipped" -> "#856404"
      [] OTHER -> "#666"

\* getStatusEmoji, lines 265-276
getStatusEmoji(status) ==
    CASE status = "passed" -> "PASSED-GLYPH"
      [] status = "failed" -> "FAILED-GLYPH"
      [] status = "skipped" -> "SKIPPED-GLYPH"
      [] OTHER -> "UNKNOWN-GLYPH"

\* Text is a sequence of pieces. A piece is a run of plain text, a
\* placeholder {{NAME}} or a replacement pattern of String.replace ($&, $$);
\* o tells whether the piece comes from the template or from a value.
Lit(s) == [s |-> s, o |-> "t"]
Val(s) == [s |-> s, o |-> "v"]

\* the text of a test's error, kept as characters
ErrorPiece(chars) == [s |-> "#chars", o |-> "v", chars |-> chars]

\* the pieces of a text handed in by the caller
Pieces(str) ==
    CASE str = "Profit $$ Tracker" -> <<Val("Profit "), Val("$$"), Val(" Tracker")>>
      [] str = "See {{BUILD_URL}}" -> <<Val("See "), Val("{{BUILD_URL}}")>>
      [] str = "shows $& in search" -> <<Val("shows "), Val("$&"), Val(" in search")>>
      [] OTHER -> <<Val(str)>>

\* how String.replace reads a replacement string: $& is the matched text,
\* $$ a dollar sign
Expand(value, matched) ==
    [k \in 1..Len(value) |->
        IF value[k].s = "$&" THEN Val(matched)
        ELSE IF value[k].s = "$$" THEN Val("$")
        ELSE value[k]]

\* html.replace(/{{NAME}}/g, value): every occurrence, left to right
RECURSIVE ReplaceAll(_, _, _)
ReplaceAll(html, name, value) ==
    IF html = <<>> THEN <<>>
    ELSE (IF Head(html).s = name THEN Expand(value, name) ELSE <<Head(html)>>)
         \o ReplaceAll(Tail(html), name, value)

\* html.replace('{{NAME}}', value): a string pattern, first occurrence only
RECURSIVE ReplaceFirst(_, _, _)
ReplaceFirst(html, name, value) ==
    IF html = <<>> THEN <<>>
    ELSE IF Head(html).s = name THEN Expand(value, name) \o Tail(html)
    ELSE <<Head(html)>> \o ReplaceFirst(Tail(html), name, value)

\* one table row per test, lines 146-161
TestRow(test) ==
    <<Val("<tr><td>")>> \o Pieces(test.name) \o
    <<Val("</td><td><span style=color:"), Val(getStatusColor(test.status)), Val(">"),
      Val(getStatusEmoji(test.status)), Val(" "), Val(Upper(test.status)),
      Val("</span></td><td>"), Val(ToString(test.duration)), Val("ms</td><td>"),
      IF ~test.error.isNull /\ test.error.str # <<>> THEN ErrorPiece(test.error.str)
      ELSE Val("-"),
      Val("</td></tr>")>>

\* lines 145-161: data.tests.map(...).join('')
RECURSIVE TestRows(_)
TestRows(tests) ==
    IF tests = <<>> THEN <<>> ELSE TestRow(Head(tests)) \o TestRows(Tail(tests))

\* line 141 and line 142: the overall glyph and colour of the body
StatusEmojiValue_ByPassed(summary) ==
    IF summary.passed < summary.totalTests THEN "FAILED-GLYPH" ELSE "PASSED-GLYPH"

StatusEmojiValue(summary) == IF summary.failed > 0 THEN "FAILED-GLYPH" ELSE "PASSED-GLYPH"

StatusColorValue(summary) == IF summary.failed > 0 THEN "#dc3545" ELSE "#28a745"

\* lines 130-143: the replace calls in the order of the chain
Replacements(data) ==
    <<[name |-> "{{PROJECT_NAME}}",
       value |-> Pieces(IF TruthyStr(data.projectName) THEN data.projectName
                        ELSE "Playwright E2E Tests")],
      [name |-> "{{ENVIRONMENT}}", value |-> <<Val(Upper(data.summary.environment))>>],
      [name |-> "{{TOTAL_TESTS}}", value |-> <<Val(ToString(data.summary.totalTests))>>],
      [name |-> "{{PASSED}}", value |-> <<Val(ToString(data.summary.passed))>>],
      [name |-> "{{FAILED}}", value |-> <<Val(ToString(data.summary.failed))>>],
      [name |-> "{{SKIPPED}}", value |-> <<Val(ToString(data.summary.skipped))>>],
      [name |-> "{{PASS_RATE}}", value |-> <<Val(PassRate(data.summary))>>],
      [name |-> "{{DURATION}}",
       value |-> <<Val(ToString((data.summary.duration + 30000) \div 60000) \o " min")>>],
      [name |-> "{{START_TIME}}", value |-> <<Val(data.summary.startTime.iso)>>],
      [name |-> "{{END_TIME}}", value |-> <<Val(data.summary.endTime.iso)>>],
      [name |-> "{{STATUS_EMOJI}}", value |-> <<Val(StatusEmojiValue(data.summary))>>],
      [name |-> "{{STATUS_COLOR}}", value |-> <<Val(StatusColorValue(data.summary))>>],
      [name |-> "{{BUILD_URL}}",
       value |-> Pieces(IF TruthyStr(data.buildUrl) THEN data.buildUrl ELSE "#")]>>

\* the first k replace calls of the chain applied to html
RECURSIVE ReplaceChain(_, _, _)
ReplaceChain(html, reps, k) ==
    IF k = 0 THEN html
    ELSE ReplaceAll(ReplaceChain(html, reps, k - 1), reps[k].name, reps[k].value)

\* getDefaultTemplate, lines 171-244
DefaultTemplate ==
    <<Lit("<div style=background-color:"), Lit("{{STATUS_COLOR}}"), Lit("><h1>"),
      Lit("{{STATUS_EMOJI}}"), Lit(" "), Lit("{{PROJECT_NAME}}"),
      Lit("</h1><p>Environment: "), Lit("{{ENVIRONMENT}}"),
      Lit("</p></div><div>"), Lit("{{TOTAL_TESTS}}"), Lit("</div><div>"), Lit("{{PASSED}}"),
      Lit("</div><div>"), Lit("{{FAILED}}"), Lit("</div><div>"), Lit("{{SKIPPED}}"),
      Lit("</div><p>Pass Rate: "), Lit("{{PASS_RATE}}"), Lit("%</p><p>Duration: "),
      Lit("{{DURATION}}"), Lit("</p><p>Started: "), Lit("{{START_TIME}}"),
      Lit("</p><p>Ended: "), Lit("{{END_TIME}}"), Lit("</p><table>"),
      Lit("{{TEST_RESULTS_ROWS}}"), Lit("</table><a href="), Lit("{{BUILD_URL}}"),
      Lit(">View Full Report</a>")>>

\* a templates/email-report.html that shows the project, the rate and the
\* table at the top and again at the bottom
TemplateTwice ==
    <<Lit("{{PROJECT_NAME}}"), Lit(": "), Lit("{{PASS_RATE}}"), Lit("%<table>"),
      Lit("{{TEST_RESULTS_ROWS}}"), Lit("</table><a href="), Lit("{{BUILD_URL}}"),
      Lit(">"), Lit("{{STATUS_EMOJI}}"), Lit("</a><hr>"), Lit("{{PROJECT_NAME}}"), Lit(": "),
      Lit("{{PASS_RATE}}"), Lit("%<table>"), Lit("{{TEST_RESULTS_ROWS}}"), Lit("</table>")>>

TemplateFiles == {DefaultTemplate, TemplateTwice}

\* lines 119-124: what existsSync and readFileSync find at the template path
TemplateStates ==
    {[state |-> "absent"], [state |-> "unreadable"]}
    \cup {[state |-> "readable", content |-> c] : c \in TemplateFiles}

\* lines 119-124: the template text generateHtmlReport starts from
TemplateText(tpl) == IF tpl.state = "readable" THEN tpl.content ELSE DefaultTemplate

\* generateHtmlReport, lines 116-166; reading an unreadable template file and
\* toISOString() of an invalid date throw
generateHtmlReport(data, tpl) ==
    IF tpl.state = "unreadable"
    THEN [threw |-> TRUE, error |-> "EACCES: permission denied"]
    ELSE IF ~data.summary.startTime.valid \/ ~data.summary.endTime.valid
    THEN [threw |-> TRUE, error |-> "Invalid time value"]
    ELSE [threw |-> FALSE,
          html |-> ReplaceFirst(ReplaceChain(TemplateText(tpl), Replacements(data),
                                             Len(Replacements(data))),
                                "{{TEST_RESULTS_ROWS}}", TestRows(data.tests))]

\* prepareAttachments, lines 281-292
prepareAttachments(fs, paths) ==
    LET present(path) == existsSync(fs, path)
    IN SelectSeq(paths, present)

\* lines 97-101: catch of sendReport
SendReportCatch_Rethrow(err) == [threw |-> TRUE, value |-> FALSE]

SendReportCatch(err) == [threw |-> FALSE, value |-> FALSE]

\* The outcome of an error thrown inside sendReport's try block.
SendReportFail(err) ==
    LET c == SendReportCatch(err)
    IN [outcome |-> IF c.threw THEN Threw(err) ELSE Returned(c.value),
        log |-> IF c.threw THEN <<>>
                ELSE <<LogEntry("error", "Failed to send email report", err)>>]

NoMail == [none |-> TRUE]

\* lines 63-71: the options the constructor gives nodemailer.createTransport
TransportOptions == {"host", "port", "secure", "auth"}

InitEmail ==
    /\ template = [state |-> "unread"]
    /\ mailData = NoMail
    /\ mailInflight = {}
    /\ mailbox = <<>>

\* a caller invokes sendReport(data, attachmentPaths): lines 77-94, up to
\* the await of sendMail or to the catch
InvokeSendReport(data, paths, tpl) ==
    LET h == generateHtmlReport(data, tpl)
    IN /\ mailData' = data
       /\ template' = tpl
       /\ IF h.threw
          THEN /\ caller' = "done"
               /\ outcome' = SendReportFail(h.error).outcome
               /\ log' = (log \o <<LogEntry("info", "Preparing email report...", "")>>)
                            \o SendReportFail(h.error).log
               /\ mailInflight' = mailInflight
          ELSE /\ caller' = "sendReport"
               /\ outcome' = outcome
               /\ log' = Append(log, LogEntry("info", "Preparing email report...", ""))
               /\ mailInflight' =
                     {[subject |-> generateSubject(data.summary),
                       html |-> h.html,
                       attachments |-> prepareAttachments(files, paths)]}
       /\ op' = "sendReport"

SendReportCall ==
    /\ caller = "idle"
    /\ \E data \in EmailReportData, paths \in AttachmentPaths, tpl \in TemplateStates :
          InvokeSendReport(data, paths, tpl)
    /\ UNCHANGED <<enabled, files, results, i, cur, testCaseId, pc, ret, inflight, sent,
                   remote, rejected, calls, rets, mailbox>>

\* the transport delivers the mail; sendReport returns true (lines 95-96)
SendMailResolve ==
    /\ caller = "sendReport"
    /\ \E m \in mailInflight :
          /\ mailInflight' = mailInflight \ {m}
          /\ mailbox' = Append(mailbox, m)
    /\ outcome' = Returned(TRUE)
    /\ log' = Append(log, LogEntry("info", "Report sent", ""))
    /\ caller' = "done"
    /\ UNCHANGED <<enabled, files, op, results, i, cur, testCaseId, pc, ret, inflight, sent,
                   remote, rejected, calls, rets, template, mailData>>

\* sendMail fails: control passes to the catch of sendReport
SendMailReject ==
    /\ caller = "sendReport"
    /\ \E m \in mailInflight, err \in MailErrors :
          /\ mailInflight' = mailInflight \ {m}
          /\ outcome' = SendReportFail(err).outcome
          /\ log' = log \o SendReportFail(err).log
    /\ caller' = "done"
    /\ UNCHANGED <<enabled, files, op, results, i, cur, testCaseId, pc, ret, inflight, sent,
                   remote, rejected, calls, rets, template, mailData, mailbox>>

\* ------------------------------------- subject and body of the report mail
VARIABLES renderData, renderTemplate, subject, html

renderVars == <<renderData, renderTemplate, subject, html>>

\* summaries of a run of ten tests and of a run of forty
SampleSummaries ==
    {[totalTests |-> 10, passed |-> 8, failed |-> 2, skipped |-> 0, duration |-> 125000,
      startTime |-> ValidDate, endTime |-> ValidDate, environment |-> "qa",
      browserName |-> "chromium"],
     [totalTests |-> 40, passed |-> 23, failed |-> 17, skipped |-> 0, duration |-> 125000,
      startTime |-> ValidDate, endTime |-> ValidDate, environment |-> "qa",
      browserName |-> "chromium"]}

RenderTests ==
    SampleTests \cup
    {<<[name |-> "shows $& in search", status |-> "passed", duration |-> 120,
        error |-> Null, retries |-> 0]>>}

\* EmailReportData handed to the two generators
RenderData ==
    [summary : TestResultSummary \cup SampleSummaries,
     tests : RenderTests,
     projectName : {Undefined, "Acme Shop", "See {{BUILD_URL}}", "Profit $$ Tracker"},
     buildUrl : {Undefined, "https://ci.example/run/1"}]

InitRender ==
    /\ renderData \in RenderData
    /\ renderTemplate \in TemplateStates
    /\ subject = Pending
    /\ html = Pending

RenderIdle ==
    /\ renderData = NoMail
    /\ renderTemplate = [state |-> "unread"]
    /\ subject = Pending
    /\ html = Pending

\* generateSubject(data.summary), line 82
GenerateSubjectCall ==
    /\ subject = Pending
    /\ subject' = Returned(generateSubject(renderData.summary))
    /\ UNCHANGED <<renderData, renderTemplate, html>>

\* generateHtmlReport(data), line 81
GenerateHtmlReportCall ==
    /\ html = Pending
    /\ LET h == generateHtmlReport(renderData, renderTemplate)
       IN html' = IF h.threw THEN Threw(h.error) ELSE Returned(h.html)
    /\ UNCHANGED <<renderData, renderTemplate, subject>>

\* ------------------------------------------------ Playwright report parser
\* largest number of nodes (suites, specs, test entries, attempts) of a report
MaxNodes == 7

\* longest error text kept by the parser (line 99)
MaxErrorLen == 200

VARIABLES
    reportFile,   \* reports/test-results.json: absent, malformed or present
    report,       \* the parsed content of the report file
    parsed        \* what parsePlaywrightReport gave: pending, returned data, or threw

parserVars == <<reportFile, report, parsed>>

\* optional arrays of the report: a missing field, or an array
Missing == [defined |-> FALSE, items |-> <<>>]
Arr(items) == [defined |-> TRUE, items |-> items]

\* error values carried by an attempt
NoError == [kind |-> "none"]
ErrorObject(message) == [kind |-> "object", message |-> message]
ErrorString(value) == [kind |-> "string", value |-> value]

Boom == <<"b", "o", "o", "m">>
LongMessage == [k \in 1..(MaxErrorLen + 5) |-> IF k <= MaxErrorLen THEN "x" ELSE "y"]
ObjectObject == <<"[", "o", "b", "j", "e", "c", "t", " ", "O", "b", "j", "e", "c", "t", "]">>

\* attempts (elements of results[]) a report can hold
AttemptInputs ==
    {[status |-> "passed", duration |-> 120, error |-> NoError],
     [status |-> "failed", duration |-> 340, error |-> ErrorObject(Str(Boom))],
     [status |-> "skipped", duration |-> NoNumber, error |-> NoError],
     [status |-> "timedOut", duration |-> 30000, error |-> ErrorObject(Str(LongMessage))]}

NewSuite(bare) ==
    IF bare THEN [specs |-> Missing, suites |-> Missing]
    ELSE [specs |-> Arr(<<>>), suites |-> Arr(<<>>)]
NewSpec(title, bare) == [title |-> title, tests |-> IF bare THEN Missing ELSE Arr(<<>>)]
NewTest(bare) == [results |-> IF bare THEN Missing ELSE Arr(<<>>)]

\* lines 95: lastResult.error is truthy
TruthyError(error) ==
    error.kind = "object" \/ (error.kind = "string" /\ error.value # <<>>)

\* String(lastResult.error)
StringOf(error) == IF error.kind = "string" THEN error.value ELSE ObjectObject

\* line 99: .substring(0, 200)
Substring_Whole(str, from, to) == str

Substring(str, from, to) ==
    SubSeq(str, from + 1, IF to < Len(str) THEN to ELSE Len(str))

\* lines 95-100: the error text of a flattened result
ErrorText(error) ==
    IF TruthyError(error)
    THEN Str(Substring(IF error.kind = "object" /\ ~error.message.isNull
                          /\ error.message.str # <<>>
                       THEN error.message.str
                       ELSE StringOf(error), 0, MaxErrorLen))
    ELSE Null

\* line 90: resultsList[resultsList.length - 1]
LastResult_First(resultsList) == resultsList[1]

LastResult(resultsList) == resultsList[Len(resultsList)]

\* lines 91-102: the TestResult pushed for one test entry of spec
FlattenedResult(spec, resultsList) ==
    LET lastResult == LastResult(resultsList)
    IN [name |-> spec.title,
        status |-> lastResult.status,
        duration |-> IF TruthyNum(lastResult.duration) THEN lastResult.duration ELSE 0,
        error |-> ErrorText(lastResult.error),
        retries |-> Len(resultsList) - 1]

\* lines 110-111: the nested suites parseTestSuite descends into
NestedSuites_None(suite) == <<>>

NestedSuites(suite) == IF suite.suites.defined THEN suite.suites.items ELSE <<>>

RECURSIVE ParseResults(_, _, _)
RECURSIVE ParseSpecs(_, _)
RECURSIVE ParseSuites(_, _)
RECURSIVE parseTestSuite(_, _)

\* lines 87-104: the loop over spec.tests
ParseResults(spec, entries, tests) ==
    IF entries = <<>> THEN tests
    ELSE LET resultsList == entries[1].results
             pushed == IF resultsList.defined /\ Len(resultsList.items) > 0
                       THEN Append(tests, FlattenedResult(spec, resultsList.items))
                       ELSE tests
         IN ParseResults(spec, Tail(entries), pushed)

\* lines 84-106: the loop over suite.specs
ParseSpecs(specs, tests) ==
    IF specs = <<>> THEN tests
    ELSE LET spec == specs[1]
             pushed == IF spec.tests.defined
                       THEN ParseResults(spec, spec.tests.items, tests)
                       ELSE tests
         IN ParseSpecs(Tail(specs), pushed)

\* lines 112-114, and lines 34-36: the loop over a list of suites
ParseSuites(suites, tests) ==
    IF suites = <<>> THEN tests
    ELSE ParseSuites(Tail(suites), parseTestSuite(suites[1], tests))

\* parseTestSuite, lines 76-116: tests is the array being filled; the
\* _counts parameter is never read
parseTestSuite(suite, tests) ==
    LET afterSpecs == IF suite.specs.defined THEN ParseSpecs(suite.specs.items, tests)
                      ELSE tests
    IN ParseSuites(NestedSuites(suite), afterSpecs)

\* lines 39-51: number of tests counted under one case of the switch
CountStatus(tests, status) ==
    Cardinality({k \in 1..Len(tests) : tests[k].status = status})

\* parsePlaywrightReport, lines 19-71
parsePlaywrightReport(file, rep) ==
    IF file = "absent" THEN Threw("Report file not found")
    ELSE IF file = "malformed" THEN Threw("Unexpected token")
    ELSE LET tests == ParseSuites(IF rep.suites.defined THEN rep.suites.items ELSE <<>>, <<>>)
         IN Returned(
              [summary |-> [totalTests |-> Len(tests),
                            passed |-> CountStatus(tests, "passed"),
                            failed |-> CountStatus(tests, "failed"),
                            skipped |-> CountStatus(tests, "skipped"),
                            duration |-> IF rep.stats.defined /\ TruthyNum(rep.stats.duration)
                                         THEN rep.stats.duration ELSE 0,
                            startTime |-> ValidDate,
                            endTime |-> ValidDate,
                            environment |-> "qa",
                            browserName |-> "chromium"],
               tests |-> tests,
               projectName |-> "Playwright E2E Tests",
               buildUrl |-> "#"])

\* ---- the report file's content, built node by node in traversal order
RECURSIVE SizeSuites(_)
RECURSIVE SizeSpecs(_)
RECURSIVE SizeTests(_)
SizeTests(ts) ==
    IF ts = <<>> THEN 0 ELSE 1 + Len(ts[1].results.items) + SizeTests(Tail(ts))
SizeSpecs(ss) ==
    IF ss = <<>> THEN 0 ELSE 1 + SizeTests(ss[1].tests.items) + SizeSpecs(Tail(ss))
SizeSuites(ss) ==
    IF ss = <<>> THEN 0
    ELSE 1 + SizeSpecs(ss[1].specs.items) + SizeSuites(ss[1].suites.items) + SizeSuites(Tail(ss))

RECURSIVE NumSpecs(_)
NumSpecs(ss) ==
    IF ss = <<>> THEN 0
    ELSE Len(ss[1].specs.items) + NumSpecs(ss[1].suites.items) + NumSpecs(Tail(ss))

\* nesting depth of the last suite on the rightmost path of a list of suites
RECURSIVE RightDepth(_)
RightDepth(ss) ==
    IF ss = <<>> THEN 0 ELSE 1 + RightDepth(ss[Len(ss)].suites.items)

\* append suite `new` to the list `level` levels below ss on the rightmost path
RECURSIVE AppendSuiteAt(_, _, _)
AppendSuiteAt(ss, level, new) ==
    IF level = 0 THEN Append(ss, new)
    ELSE [ss EXCEPT ![Len(ss)].suites.items = AppendSuiteAt(@, level - 1, new)]

\* the suite list `level` levels below ss on the rightmost path can take a suite
RECURSIVE CanAppendSuiteAt(_, _)
CanAppendSuiteAt(ss, level) ==
    IF level = 0 THEN TRUE
    ELSE /\ ss # <<>>
         /\ ss[Len(ss)].suites.defined
         /\ CanAppendSuiteAt(ss[Len(ss)].suites.items, level - 1)

\* the deepest suite on the rightmost path
RECURSIVE Deepest(_)
Deepest(ss) ==
    IF ss[Len(ss)].suites.items = <<>> THEN ss[Len(ss)]
    ELSE Deepest(ss[Len(ss)].suites.items)

RECURSIVE SetDeepest(_, _)
SetDeepest(ss, suite) ==
    IF ss[Len(ss)].suites.items = <<>> THEN [ss EXCEPT ![Len(ss)] = suite]
    ELSE [ss EXCEPT ![Len(ss)].suites.items = SetDeepest(@, suite)]

ReportInputs ==
    {[suites |-> Missing, stats |-> [defined |-> FALSE, duration |-> NoNumber]],
     [suites |-> Arr(<<>>), stats |-> [defined |-> TRUE, duration |-> 125000]]}

InitParser ==
    /\ reportFile \in {"absent", "malformed", "present"}
    /\ report \in ReportInputs
    /\ reportFile # "present" => report = CHOOSE r \in ReportInputs : ~r.suites.defined
    /\ parsed = Pending

Growing ==
    /\ parsed = Pending
    /\ reportFile = "present"
    /\ report.suites.defined
    /\ SizeSuites(report.suites.items) < MaxNodes

\* the test run writes one more suite into the report
AddSuite ==
    /\ Growing
    /\ \E level \in 0..RightDepth(report.suites.items), bare \in BOOLEAN :
          /\ CanAppendSuiteAt(report.suites.items, level)
          /\ report' = [report EXCEPT !.suites.items = AppendSuiteAt(@, level, NewSuite(bare))]
    /\ UNCHANGED <<reportFile, parsed>>

\* the test run writes one more spec into the suite it is writing
AddSpec ==
    /\ Growing
    /\ report.suites.items # <<>>
    /\ LET suite == Deepest(report.suites.items)
       IN /\ suite.specs.defined
          /\ \E bare \in BOOLEAN :
                LET title == "spec " \o ToString(NumSpecs(report.suites.items) + 1)
                    grown == [suite EXCEPT !.specs.items = Append(@, NewSpec(title, bare))]
                IN report' = [report EXCEPT !.suites.items = SetDeepest(@, grown)]
    /\ UNCHANGED <<reportFile, parsed>>

\* the test run writes one more test entry (one per project) into the last spec
AddTest ==
    /\ Growing
    /\ report.suites.items # <<>>
    /\ LET suite == Deepest(report.suites.items)
           n == Len(suite.specs.items)
       IN /\ n > 0
          /\ suite.specs.items[n].tests.defined
          /\ \E bare \in BOOLEAN :
                LET grown == [suite EXCEPT !.specs.items[n].tests.items = Append(@, NewTest(bare))]
                IN report' = [report EXCEPT !.suites.items = SetDeepest(@, grown)]
    /\ UNCHANGED <<reportFile, parsed>>

\* the test run writes one more attempt into the last test entry
AddAttempt ==
    /\ Growing
    /\ report.suites.items # <<>>
    /\ LET suite == Deepest(report.suites.items)
           n == Len(suite.specs.items)
       IN /\ n > 0
          /\ LET m == Len(suite.specs.items[n].tests.items)
             IN /\ m > 0
                /\ suite.specs.items[n].tests.items[m].results.defined
                /\ \E attempt \in AttemptInputs :
                      LET grown == [suite EXCEPT
                                      !.specs.items[n].tests.items[m].results.items =
                                          Append(@, attempt)]
                      IN report' = [report EXCEPT !.suites.items = SetDeepest(@, grown)]
    /\ UNCHANGED <<reportFile, parsed>>

\* main calls parsePlaywrightReport(reportPath), line 130
ParseReport ==
    /\ parsed = Pending
    /\ parsed' = parsePlaywrightReport(reportFile, report)
    /\ UNCHANGED <<reportFile, report>>

\* ---- reports of one spec run once, whose attempts carry every kind of
\* error value the parser distinguishes
MaxAttempts == 2

FullMessage == [k \in 1..MaxErrorLen |-> "x"]
Timeout == <<"t", "i", "m", "e", "o", "u", "t">>

\* lastResult.error: absent; an object with a message (short, exactly as
\* long as the limit, longer), with an empty message or with none; a string
ErrorInputs ==
    {NoError,
     ErrorObject(Str(Boom)), ErrorObject(Str(FullMessage)), ErrorObject(Str(LongMessage)),
     ErrorObject(Str(<<>>)), ErrorObject(Null),
     ErrorString(Timeout), ErrorString(LongMessage)}

ErrorAttempts ==
    {[status |-> IF e = NoError THEN "passed" ELSE "failed", duration |-> 340, error |-> e] :
        e \in ErrorInputs}

ReportOfAttempts(attempts) ==
    [suites |-> Arr(<<[specs |-> Arr(<<[title |-> "spec 1",
                                        tests |-> Arr(<<[results |-> Arr(attempts)]>>)]>>),
                       suites |-> Arr(<<>>)]>>),
     stats |-> [defined |-> TRUE, duration |-> 125000]]

InitErrorReports ==
    /\ reportFile = "present"
    /\ \E n \in 1..MaxAttempts :
          \E attempts \in [1..n -> ErrorAttempts] : report = ReportOfAttempts(attempts)
    /\ parsed = Pending

ParserIdle ==
    /\ reportFile = "absent"
    /\ report = CHOOSE r \in ReportInputs : ~r.suites.defined
    /\ parsed = Pending

\* ------------------------------------------------- SquashTM module helpers
MaxGets == 3

VARIABLES testTitle, parsedId, tcOfTitle, squashClient, constructed, got,
          playwrightStatus,   \* the argument of toSquashStatus
          squashStatus        \* what toSquashStatus gave

helperVars == <<testTitle, parsedId, tcOfTitle, squashClient, constructed, got,
                playwrightStatus, squashStatus>>

UpperCase == <<"A", "B", "C", "D", "E", "F", "G", "H", "I", "J", "K", "L", "M", "N", "O", "P", "Q", "R", "S", "T", "U", "V", "W", "X", "Y", "Z">>
LowerCase == <<"a", "b", "c", "d", "e", "f", "g", "h", "i", "j", "k", "l", "m", "n", "o", "p", "q", "r", "s", "t", "u", "v", "w", "x", "y", "z">>

\* the i flag of the pattern: letters compare without case
ToLowerChar(c) ==
    IF \E k \in 1..Len(UpperCase) : UpperCase[k] = c
    THEN LowerCase[CHOOSE k \in 1..Len(UpperCase) : UpperCase[k] = c]
    ELSE c

\* the literal part of /@squashTM:([A-Z0-9-]+)/i, folded to lower case
MarkerLower == <<"@", "s", "q", "u", "a", "s", "h", "t", "m", ":">>

\* the class [A-Z0-9-] under the i flag
IdChar(c) ==
    ToLowerChar(c) \in {LowerCase[k] : k \in 1..Len(LowerCase)} \cup Digits \cup {"-"}

\* the pattern matches at position p: the literal, then one class character
MarkerAt(s, p) ==
    /\ p + Len(MarkerLower) <= Len(s)
    /\ \A k \in 1..Len(MarkerLower) : ToLowerChar(s[p + k - 1]) = MarkerLower[k]
    /\ IdChar(s[p + Len(MarkerLower)])

\* line 89: match[1], the capture group of the match at p ending at e
MatchGroup_Whole(s, p, e) == SubSeq(s, p, e)

MatchGroup(s, p, e) == SubSeq(s, p + Len(MarkerLower), e)

\* lines 87-90: parseSquashId(testTitle)
parseSquashId(title) ==
    LET hits == {p \in 1..Len(title) : MarkerAt(title, p)}
    IN IF hits = {} THEN Null
       ELSE LET p == CHOOSE q \in hits : \A r \in hits : q <= r
                e == CHOOSE q \in (p + Len(MarkerLower))..Len(title) :
                        /\ \A k \in (p + Len(MarkerLower))..q : IdChar(title[k])
                        /\ (q = Len(title) \/ ~IdChar(title[q + 1]))
            IN Str(MatchGroup(title, p, e))

\* test titles: text, a marker spelling, an identifier, trailing text
TitleSomeTest == <<"S", "o", "m", "e", " ", "t", "e", "s", "t", " ">>
TitleFalseStart == <<"@", "s", "q", "u", "a", "s", "h", " ">>
TitlePrefixes == {<<>>, TitleSomeTest, TitleFalseStart}
MarkerSpellings ==
    {<<>>, <<"@", "s", "q", "u", "a", "s", "h", "T", "M", ":">>, <<"@", "S", "Q", "U", "A", "S", "H", "T", "M", ":">>, <<"@", "s", "q", "u", "a", "s", "h", "T", "M">>}
IdWithUnderscore == <<"X", "_", "1">>
TitleIds == {<<>>, IdCampTc101, IdLowerTc7, IdNoTc, IdWithUnderscore}
TitleSmoke == <<" ", "s", "m", "o", "k", "e">>
TitleSecondMarker == <<" ", "@", "s", "q", "u", "a", "s", "h", "T", "M", ":", "T", "C", "-", "9">>
TitleSuffixes == {<<>>, TitleSmoke, TitleSecondMarker}
TestTitles ==
    {a \o m \o t \o z : a \in TitlePrefixes, m \in MarkerSpellings,
                        t \in TitleIds, z \in TitleSuffixes}

\* line 218: let squashClient: SquashTMClient | null = null
NullClient == [isNull |-> TRUE, id |-> 0, enabled |-> FALSE]

\* lines 58-74: the n-th object built by new SquashTMClient()
NewClient(n) == [isNull |-> FALSE, id |-> n, enabled |-> enabled]

\* line 224: if (!squashClient)
ClientMissing_Always(c) == TRUE

ClientMissing(c) == c.isNull

InitHelpers ==
    /\ testTitle \in TestTitles
    /\ parsedId = Pending
    /\ tcOfTitle = Pending
    /\ squashClient = NullClient
    /\ constructed = 0
    /\ got = <<>>
    /\ playwrightStatus = <<>>
    /\ squashStatus = Pending

HelpersIdle ==
    /\ testTitle = <<>>
    /\ parsedId = Pending
    /\ tcOfTitle = Pending
    /\ squashClient = NullClient
    /\ constructed = 0
    /\ got = <<>>
    /\ playwrightStatus = <<>>
    /\ squashStatus = Pending

\* a caller applies parseSquashId to the title of a test
ParseSquashIdCall ==
    /\ parsedId = Pending
    /\ parsedId' = Returned(parseSquashId(testTitle))
    /\ UNCHANGED <<testTitle, tcOfTitle, squashClient, constructed, got,
                   playwrightStatus, squashStatus>>

\* the identifier found in the title is reported: extractTestCaseId reads it
ExtractFromParsed ==
    /\ parsedId # Pending
    /\ ~parsedId.value.isNull
    /\ tcOfTitle = Pending
    /\ tcOfTitle' = Returned(extractTestCaseId(parsedId.value.str))
    /\ UNCHANGED <<testTitle, parsedId, squashClient, constructed, got,
                   playwrightStatus, squashStatus>>

\* lines 223-228: getSquashTMClient()
GetSquashTMClient ==
    /\ Len(got) < MaxGets
    /\ IF ClientMissing(squashClient)
       THEN /\ squashClient' = NewClient(constructed + 1)
            /\ constructed' = constructed + 1
       ELSE UNCHANGED <<squashClient, constructed>>
    /\ got' = Append(got, squashClient')
    /\ UNCHANGED <<testTitle, parsedId, tcOfTitle, playwrightStatus, squashStatus>>

\* ---- toSquashStatus, lines 241-253
ToUpperChar(c) ==
    IF \E k \in 1..Len(LowerCase) : LowerCase[k] = c
    THEN UpperCase[CHOOSE k \in 1..Len(LowerCase) : LowerCase[k] = c]
    ELSE c

\* the statuses a Playwright result can carry, and words that are no status
WordPassed == <<"p", "a", "s", "s", "e", "d">>
WordFailed == <<"f", "a", "i", "l", "e", "d">>
WordTimedout == <<"t", "i", "m", "e", "d", "o", "u", "t">>
WordSkipped == <<"s", "k", "i", "p", "p", "e", "d">>
WordInterrupted == <<"i", "n", "t", "e", "r", "r", "u", "p", "t", "e", "d">>
WordFlaky == <<"f", "l", "a", "k", "y">>
WordPass == <<"p", "a", "s", "s">>
WordTimedOutSpaced == <<"t", "i", "m", "e", "d", " ", "o", "u", "t">>

\* a word in every mix of upper and lower case
CaseVariants(w) ==
    {[k \in 1..Len(w) |-> IF k \in U THEN ToUpperChar(w[k]) ELSE w[k]] :
        U \in SUBSET (1..Len(w))}

PlaywrightStatuses ==
    UNION {CaseVariants(w) : w \in {WordPassed, WordFailed, WordTimedout, WordSkipped,
                                    WordFlaky, WordPass}}
        \cup {<<>>, WordInterrupted, WordTimedOutSpaced}

\* line 242: playwrightStatus.toLowerCase(), the value the switch compares
SwitchKey_AsGiven(status) == status

SwitchKey(status) == [k \in 1..Len(status) |-> ToLowerChar(status[k])]

toSquashStatus(status) ==
    LET key == SwitchKey(status)
    IN IF key = WordPassed THEN "PASSED"
       ELSE IF key = WordFailed \/ key = WordTimedout THEN "FAILED"
       ELSE IF key = WordSkipped THEN "NOT_RUN"
       ELSE "NOT_RUN"

InitStatuses ==
    /\ testTitle = <<>>
    /\ parsedId = Pending
    /\ tcOfTitle = Pending
    /\ squashClient = NullClient
    /\ constructed = 0
    /\ got = <<>>
    /\ playwrightStatus \in PlaywrightStatuses
    /\ squashStatus = Pending

\* a caller converts the status of a Playwright result
ToSquashStatusCall ==
    /\ squashStatus = Pending
    /\ squashStatus' = Returned(toSquashStatus(playwrightStatus))
    /\ UNCHANGED <<testTitle, parsedId, tcOfTitle, squashClient, constructed, got,
                   playwrightStatus>>

\* ------------------------------------------------------------ TestDataLoader
MaxLoads == 2

VARIABLES dataFormatSetting, dataFiles, loads, loadLog

loaderVars == <<dataFormatSetting, dataFiles, loads, loadLog>>

\* values a parsed document is made of
JUndefined == [t |-> "undefined"]
JNull == [t |-> "null"]
JStr(s) == [t |-> "string", s |-> s]
JNum(n) == [t |-> "number", n |-> n]
JFunction == [t |-> "function"]
JArr(items) == [t |-> "array", items |-> items]
JObj(keys, vals) == [t |-> "object", keys |-> keys, vals |-> vals]

\* the ! operator on a value
Falsy(v) ==
    \/ v.t \in {"undefined", "null"}
    \/ v.t = "string" /\ v.s = ""
    \/ v.t = "number" /\ v.n = 0

\* Array.isArray
IsArray(v) == v.t = "array"

\* members every object inherits from Object.prototype
ObjectPrototypeKeys == {"constructor", "toString"}

\* data[key]: own member, else inherited member, else undefined
GetMember(data, key) ==
    CASE data.t = "object" ->
            IF \E k \in 1..Len(data.keys) : data.keys[k] = key
            THEN data.vals[CHOOSE k \in 1..Len(data.keys) : data.keys[k] = key]
            ELSE IF key \in ObjectPrototypeKeys THEN JFunction ELSE JUndefined
      [] data.t = "array" ->
            IF key \in ObjectPrototypeKeys THEN JFunction ELSE JUndefined
      [] OTHER -> JUndefined

\* settings.ts line 20 and line 82: DATA_FORMAT is cast, not validated
DataFormat == {"json", "yaml"}
DataFormatSettings == DataFormat \cup {"xml"}

\* settings.ts lines 120-122
getDataFormat(setting) == setting

\* lines 200-203: DATA_DIRS[dataFormat], relative to the working directory
DATA_DIRS(fmt) ==
    CASE fmt = "json" -> "test-data/json"
      [] fmt = "yaml" -> "test-data/yaml"
      [] OTHER -> Undefined

\* line 214
Extension_AlwaysJson(fmt) == ".json"

Extension(fmt) == IF fmt = "json" THEN ".json" ELSE ".yaml"

\* line 216: path.join(dataDir, filename + extension)
PathJoin(dir, name) == (dir \o "/") \o name

\* documents the data files hold
UserA == JObj(<<"name", "squashId">>, <<JStr("Standard user"), JStr("CAMP-4-TC-101")>>)
UserB == JObj(<<"name", "squashId">>, <<JStr("Locked user"), JStr("CAMP-4-TC-102")>>)
DocUsers == JObj(<<"validUsers">>, <<JArr(<<UserA, UserB>>)>>)
DocEmptyList == JObj(<<"validUsers">>, <<JArr(<<>>)>>)
DocNullValue == JObj(<<"validUsers">>, <<JNull>>)
DocStringValue == JObj(<<"validUsers">>, <<JStr("none")>>)
DocOtherKey == JObj(<<"invalidUsers">>, <<JArr(<<UserB>>)>>)
DocNull == JNull
Documents == {DocUsers, DocEmptyList, DocNullValue, DocStringValue, DocOtherKey, DocNull}

\* a path of the file system: nothing there, something that cannot be read,
\* or a file whose text is JSON, YAML (not JSON) or neither, encoding doc
Absent == [kind |-> "absent"]
Unreadable == [kind |-> "unreadable"]
File(syntax, doc) == [kind |-> "file", syntax |-> syntax, doc |-> doc]
Garbage == File("garbage", JUndefined)
FileStates ==
    {Absent, Unreadable, Garbage} \cup {File(x, doc) : x \in {"json", "yaml"}, doc \in Documents}

Filenames == {"users"}
ArrayKeys == {"validUsers", "constructor"}
DataPaths ==
    {PathJoin(DATA_DIRS(f), n \o e) : f \in DataFormat, n \in Filenames, e \in {".json", ".yaml"}}
HomePaths == {PathJoin(DATA_DIRS(f), n \o ("." \o f)) : f \in DataFormat, n \in Filenames}

\* line 220: fs.existsSync(filePath)
DataFileExists(fs, filePath) == fs[filePath].kind # "absent"

\* JSON.parse(fileContent): JSON text only
JSONparse(file) ==
    IF file.syntax = "json" THEN [threw |-> FALSE, value |-> file.doc]
    ELSE [threw |-> TRUE, error |-> [name |-> "SyntaxError", message |-> "Unexpected token"]]

\* YAML.parse(fileContent): YAML text, of which JSON text is a subset
YAMLparse(file) ==
    IF file.syntax \in {"json", "yaml"} THEN [threw |-> FALSE, value |-> file.doc]
    ELSE [threw |-> TRUE, error |-> [name |-> "YAMLParseError", message |-> "Unexpected scalar"]]

\* lines 226-231: the parser the format selects
ParseAs_AlwaysJson(fmt, file) == JSONparse(file)

ParseAs(fmt, file) == IF fmt = "json" THEN JSONparse(file) ELSE YAMLparse(file)

ErrorOf(message) == [name |-> "Error", message |-> message]

\* lines 220-222
NotFoundError(filePath) == ErrorOf("Test data file not found: " \o filePath)

\* lines 232-235: the catch clause of loadTestData
LoadCatch_Undefined(fmt, filePath, err) == Returned(JUndefined)

LoadCatch(fmt, filePath, err) ==
    Threw(ErrorOf(((((("Failed to parse " \o Upper(fmt)) \o " file ") \o filePath) \o ": ")
                     \o err.message)))

\* lines 212-236: loadTestData(filename, format?) on file system fs; the
\* result carries the line written to the debug log
loadTestData(fs, setting, filename, format) ==
    LET dataFormat == IF TruthyStr(format) THEN format ELSE getDataFormat(setting)
        extension == Extension(dataFormat)
        dataDir == DATA_DIRS(dataFormat)
    IN IF dataDir = Undefined
       THEN [out |-> Threw([name |-> "TypeError",
                            message |-> "The \"path\" argument must be of type string"]),
             debug |-> <<>>]
       ELSE LET filePath == PathJoin(dataDir, filename \o extension)
                file == fs[filePath]
            IN [out |-> IF ~DataFileExists(fs, filePath) THEN Threw(NotFoundError(filePath))
                        ELSE IF file.kind = "unreadable"
                        THEN Threw([name |-> "Error", message |-> "EISDIR: " \o filePath])
                        ELSE LET r == ParseAs(dataFormat, file)
                             IN IF r.threw THEN LoadCatch(dataFormat, filePath, r.error)
                                ELSE Returned(r.value),
                debug |-> <<"Loading test data from: " \o filePath>>]

\* line 248: if (!data[arrayKey])
KeyMissing(data, key) == Falsy(GetMember(data, key))

\* lines 245-257: loadTestDataArray(filename, arrayKey)
loadTestDataArray(fs, setting, filename, arrayKey) ==
    LET l == loadTestData(fs, setting, filename, Undefined)
    IN IF l.out.kind = "threw" THEN l
       ELSE LET data == l.out.value
            IN [out |-> IF data.t \in {"null", "undefined"}
                        THEN Threw([name |-> "TypeError",
                                    message |-> "Cannot read properties of " \o data.t])
                        ELSE IF KeyMissing(data, arrayKey)
                        THEN Threw(ErrorOf((("Key \"" \o arrayKey)
                                 \o "\" not found in test data file: ") \o filename))
                        ELSE IF ~IsArray(GetMember(data, arrayKey))
                        THEN Threw(ErrorOf((("Key \"" \o arrayKey)
                                 \o "\" is not an array in test data file: ") \o filename))
                        ELSE Returned(GetMember(data, arrayKey)),
                debug |-> l.debug]

\* the state of the process and its data directories before any load; a path
\* outside its format's home holds nothing or a stray copy of the users file
InitLoader ==
    /\ dataFormatSetting \in DataFormatSettings
    /\ dataFiles \in {f \in [DataPaths -> FileStates] :
                         \A p \in DataPaths \ HomePaths : f[p] \in {Absent, File("json", DocUsers)}}
    /\ loads = <<>>
    /\ loadLog = <<>>

LoaderIdle ==
    /\ dataFormatSetting = "json"
    /\ dataFiles = [p \in DataPaths |-> Absent]
    /\ loads = <<>>
    /\ loadLog = <<>>

\* a test file calls loadTestData(filename) or loadTestData(filename, format)
LoadTestDataCall ==
    /\ Len(loads) < MaxLoads
    /\ \E filename \in Filenames, format \in DataFormat \cup {Undefined} :
          LET l == loadTestData(dataFiles, dataFormatSetting, filename, format)
          IN /\ loads' = Append(loads, [fn |-> "loadTestData", filename |-> filename,
                                        format |-> format, arrayKey |-> Undefined,
                                        out |-> l.out])
             /\ loadLog' = loadLog \o l.debug
    /\ UNCHANGED <<dataFormatSetting, dataFiles>>

\* a test file calls loadTestDataArray(filename, arrayKey)
LoadTestDataArrayCall ==
    /\ Len(loads) < MaxLoads
    /\ \E filename \in Filenames, arrayKey \in ArrayKeys :
          LET l == loadTestDataArray(dataFiles, dataFormatSetting, filename, arrayKey)
          IN /\ loads' = Append(loads, [fn |-> "loadTestDataArray", filename |-> filename,
                                        format |-> Undefined, arrayKey |-> arrayKey,
                                        out |-> l.out])
             /\ loadLog' = loadLog \o l.debug
    /\ UNCHANGED <<dataFormatSetting, dataFiles>>

\* ------------------------------------------ the report-sending script, main
VARIABLES
    mainPc,       \* where main is: idle, start, verify, send, exited
    connected,    \* what verifyConnection gave: pending, or returned true / false
    exitCode,     \* the exit code of the process: NoNumber while it runs
    mainCalls     \* the calls main has made, in order

mainVars == <<mainPc, connected, exitCode, mainCalls>>

\* line 163: process.exit(1)
FailureExitCode == 1

\* the exit code of a process whose main returned without calling process.exit
NormalExitCode == 0

\* part_001 lines 302-306: catch of verifyConnection
VerifyConnectionCatch(err) == [threw |-> FALSE, value |-> FALSE]

\* line 141: if (!connected)
NotConnected_Never(c) == FALSE

NotConnected(c) == ~c

\* lines 155-159: if (sent) ... else throw
NotSent_Never(s) == FALSE

NotSent(s) == ~s

MainIdle ==
    /\ mainPc = "idle"
    /\ connected = Pending
    /\ exitCode = NoNumber
    /\ mainCalls = <<>>

InitMain ==
    /\ mainPc = "start"
    /\ connected = Pending
    /\ exitCode = NoNumber
    /\ mainCalls = <<>>

\* lines 160-164: the catch of main logs the error and exits with code 1
MainFails ==
    /\ mainPc' = "exited"
    /\ exitCode' = FailureExitCode

\* main runs from line 122 to the await of verifyConnection (line 140), or
\* to the catch when parsePlaywrightReport throws
MainStart ==
    /\ mainPc = "start"
    /\ parsed' = parsePlaywrightReport(reportFile, report)
    /\ IF parsed'.kind = "threw"
       THEN /\ MainFails
            /\ mainCalls' = <<"parsePlaywrightReport">>
       ELSE /\ mainPc' = "verify"
            /\ exitCode' = exitCode
            /\ mainCalls' = <<"parsePlaywrightReport", "verifyConnection">>
    /\ UNCHANGED <<reportFile, report, connected>>

\* main resumes with the value of verifyConnection (lines 140-152): it
\* throws when not connected, else calls sendReport(reportData, [])
MainAfterVerify(c) ==
    /\ connected' = Returned(c)
    /\ IF NotConnected(c)
       THEN /\ MainFails
            /\ mainCalls' = mainCalls
            /\ UNCHANGED <<mailData, template, caller, outcome, log, mailInflight, op>>
       ELSE /\ mainPc' = "send"
            /\ exitCode' = exitCode
            /\ mainCalls' = Append(mainCalls, "sendReport")
            /\ \E tpl \in TemplateStates : InvokeSendReport(parsed.value, <<>>, tpl)
    /\ UNCHANGED <<enabled, files, results, i, cur, testCaseId, pc, ret, inflight, sent,
                   remote, rejected, calls, rets, mailbox>>

\* transporter.verify() resolves: verifyConnection returns true
VerifyResolve ==
    /\ mainPc = "verify"
    /\ MainAfterVerify(TRUE)

\* transporter.verify() rejects: verifyConnection catches and returns false
VerifyReject ==
    /\ mainPc = "verify"
    /\ \E err \in MailErrors :
          /\ ~VerifyConnectionCatch(err).threw
          /\ MainAfterVerify(VerifyConnectionCatch(err).value)

\* sendReport has settled; main resumes at line 155 and runs to its end
MainAfterSend ==
    /\ mainPc = "send"
    /\ caller = "done"
    /\ IF outcome.kind = "threw" \/ NotSent(outcome.value)
       THEN MainFails
       ELSE /\ mainPc' = "exited"
            /\ exitCode' = NormalExitCode
    /\ UNCHANGED <<connected, mainCalls>>

\* ------------------------------------------------------------- ApiClient
\* longest time, in clock ticks, a request is followed for
MaxElapsed == 2

VARIABLES
    apiPc,        \* where the request method is: idle, awaiting, done
    apiConfig,    \* the AxiosRequestConfig handed to executeRequest
    apiStart,     \* startTime, line 463
    apiNow,       \* Date.now()
    apiAnswer,    \* how the transport settled client.request
    apiOutcome    \* what the request method gave its caller

apiVars == <<apiPc, apiConfig, apiStart, apiNow, apiAnswer, apiOutcome>>

\* the request methods of ApiClient, lines 496-597
ApiMethods == {"get", "post", "put", "patch", "delete", "upload"}

\* the config each method hands to executeRequest
RequestConfig(fn, url) ==
    [method |-> CASE fn = "get" -> "GET"
                  [] fn = "post" -> "POST"
                  [] fn = "put" -> "PUT"
                  [] fn = "patch" -> "PATCH"
                  [] fn = "delete" -> "DELETE"
                  [] OTHER -> "POST",
     url |-> url,
     data |-> CASE fn \in {"post", "put", "patch"} -> "json"
                [] fn = "upload" -> "formData"
                [] OTHER -> Undefined,
     contentType |-> IF fn = "upload" THEN "multipart/form-data" ELSE "application/json"]

\* answers of a server: status, status text and body
ServerAnswers ==
    {[status |-> 200, statusText |-> "OK", data |-> "users"],
     [status |-> 201, statusText |-> "Created", data |-> "user"],
     [status |-> 204, statusText |-> "No Content", data |-> ""],
     [status |-> 400, statusText |-> "Bad Request", data |-> "invalid email"],
     [status |-> 404, statusText |-> "Not Found", data |-> ""],
     [status |-> 500, statusText |-> "Internal Server Error", data |-> "oops"],
     [status |-> 503, statusText |-> "Service Unavailable", data |-> ""]}

NoResponse == [status |-> NoNumber, statusText |-> "", data |-> ""]

\* errors client.request rejects with when no answer arrived, and an error
\* that is not an AxiosError
TransportErrors ==
    {[isAxiosError |-> TRUE, message |-> "Network Error", response |-> NoResponse],
     [isAxiosError |-> TRUE, message |-> "timeout of 30000ms exceeded", response |-> NoResponse],
     [isAxiosError |-> FALSE, message |-> "Invalid URL", response |-> NoResponse]}

\* line 466: client.request resolves for a status the client's
\* validateStatus accepts (2xx) and rejects with an AxiosError carrying the
\* response for any other status
Settles(answer) ==
    IF answer.status >= 200 /\ answer.status < 300
    THEN [resolved |-> TRUE, response |-> answer]
    ELSE [resolved |-> FALSE,
          error |-> [isAxiosError |-> TRUE,
                     message |-> "Request failed with status code " \o ToString(answer.status),
                     response |-> answer]]

\* lines 469-475 and 480-486: the ApiResponse built from a response
ApiResponse(response, duration) ==
    [data |-> response.data,
     status |-> response.status,
     statusText |-> response.statusText,
     duration |-> duration]

\* line 479: axios.isAxiosError(error) && error.response
HasResponse_Never(error) == FALSE

HasResponse(error) == error.isAxiosError /\ error.response # NoResponse

\* lines 476-490: the catch of executeRequest
ExecuteRequestCatch(error, duration) ==
    IF HasResponse(error)
    THEN Returned(ApiResponse(error.response, duration))
    ELSE Threw(error)

ApiIdle ==
    /\ apiPc = "idle"
    /\ apiConfig = NoResult
    /\ apiStart = 0
    /\ apiNow = 0
    /\ apiAnswer = NoResult
    /\ apiOutcome = Pending

\* a caller invokes get, post, put, patch, delete or upload: the method
\* builds its config and executeRequest runs to its await (lines 463-466)
ApiRequestCall ==
    /\ apiPc = "idle"
    /\ \E fn \in ApiMethods : apiConfig' = RequestConfig(fn, "/users")
    /\ apiStart' = apiNow
    /\ apiPc' = "awaiting"
    /\ UNCHANGED <<apiNow, apiAnswer, apiOutcome>>

\* time passes while the request is in flight
ApiTick ==
    /\ apiPc = "awaiting"
    /\ apiNow - apiStart < MaxElapsed
    /\ apiNow' = apiNow + 1
    /\ UNCHANGED <<apiPc, apiConfig, apiStart, apiAnswer, apiOutcome>>

\* the server answers: executeRequest resumes at line 467 or in its catch
ApiServerAnswers ==
    /\ apiPc = "awaiting"
    /\ \E answer \in ServerAnswers :
          /\ apiAnswer' = [responded |-> TRUE, response |-> answer]
          /\ apiOutcome' =
                IF Settles(answer).resolved
                THEN Returned(ApiResponse(Settles(answer).response, apiNow - apiStart))
                ELSE ExecuteRequestCatch(Settles(answer).error, apiNow - apiStart)
    /\ apiPc' = "done"
    /\ UNCHANGED <<apiConfig, apiStart, apiNow>>

\* the request fails without an answer: executeRequest resumes in its catch
ApiNoAnswer ==
    /\ apiPc = "awaiting"
    /\ \E error \in TransportErrors :
          /\ apiAnswer' = [responded |-> FALSE, error |-> error]
          /\ apiOutcome' = ExecuteRequestCatch(error, apiNow - apiStart)
    /\ apiPc' = "done"
    /\ UNCHANGED <<apiConfig, apiStart, apiNow>>

\* ------------------------------------------------------------ specification
vars == <<squashVars, emailVars, parserVars, helperVars, loaderVars, renderVars, mainVars, apiVars>>

\* the reporting integrations: one call of the Squash TM client or of the
\* email reporter, and the answers of the remote systems
Init ==
    InitSquash /\ InitEmail /\ ParserIdle /\ HelpersIdle /\ LoaderIdle /\ RenderIdle /\ MainIdle
        /\ ApiIdle

Next ==
    \/ ReportResultCall /\ UNCHANGED <<emailVars, parserVars, helperVars, loaderVars, renderVars, mainVars, apiVars>>
    \/ ReportDDTResultsCall /\ UNCHANGED <<emailVars, parserVars, helperVars, loaderVars, renderVars, mainVars, apiVars>>
    \/ PatchResolve /\ UNCHANGED <<emailVars, parserVars, helperVars, loaderVars, renderVars, mainVars, apiVars>>
    \/ PatchReject /\ UNCHANGED <<emailVars, parserVars, helperVars, loaderVars, renderVars, mainVars, apiVars>>
    \/ PostResolve /\ UNCHANGED <<emailVars, parserVars, helperVars, loaderVars, renderVars, mainVars, apiVars>>
    \/ PostReject /\ UNCHANGED <<emailVars, parserVars, helperVars, loaderVars, renderVars, mainVars, apiVars>>
    \/ ReportResultReturn /\ UNCHANGED <<emailVars, parserVars, helperVars, loaderVars, renderVars, mainVars, apiVars>>
    \/ ReportDDTResultsStep /\ UNCHANGED <<emailVars, parserVars, helperVars, loaderVars, renderVars, mainVars, apiVars>>
    \/ SendReportCall /\ UNCHANGED <<parserVars, helperVars, loaderVars, renderVars, mainVars, apiVars>>
    \/ SendMailResolve /\ UNCHANGED <<parserVars, helperVars, loaderVars, renderVars, mainVars, apiVars>>
    \/ SendMailReject /\ UNCHANGED <<parserVars, helperVars, loaderVars, renderVars, mainVars, apiVars>>

Spec == Init /\ [][Next]_vars

\* the report parser applied to every report within the bounds
InitReport ==
    /\ InitSquash /\ ~enabled /\ files = {}
    /\ InitEmail
    /\ InitParser
    /\ HelpersIdle
    /\ LoaderIdle
    /\ RenderIdle
    /\ MainIdle
    /\ ApiIdle

NextReport ==
    \/ AddSuite /\ UNCHANGED <<squashVars, emailVars, helperVars, loaderVars, renderVars, mainVars, apiVars>>
    \/ AddSpec /\ UNCHANGED <<squashVars, emailVars, helperVars, loaderVars, renderVars, mainVars, apiVars>>
    \/ AddTest /\ UNCHANGED <<squashVars, emailVars, helperVars, loaderVars, renderVars, mainVars, apiVars>>
    \/ AddAttempt /\ UNCHANGED <<squashVars, emailVars, helperVars, loaderVars, renderVars, mainVars, apiVars>>
    \/ ParseReport /\ UNCHANGED <<squashVars, emailVars, helperVars, loaderVars, renderVars, mainVars, apiVars>>

SpecReport == InitReport /\ [][NextReport]_vars

\* the report parser applied to the reports of one spec whose attempts carry
\* every kind of error value
InitErrors ==
    /\ InitSquash /\ ~enabled /\ files = {}
    /\ InitEmail
    /\ InitErrorReports
    /\ HelpersIdle
    /\ LoaderIdle
    /\ RenderIdle
    /\ MainIdle
    /\ ApiIdle

NextErrors ==
    ParseReport /\ UNCHANGED <<squashVars, emailVars, helperVars, loaderVars, renderVars, mainVars, apiVars>>

SpecErrors == InitErrors /\ [][NextErrors]_vars

\* the helpers exported by the Squash TM module: parseSquashId on the titles
\* within the bounds, and the getter of the process-wide client
InitHelperCalls ==
    /\ InitSquash /\ files = {}
    /\ InitEmail
    /\ ParserIdle
    /\ InitHelpers
    /\ LoaderIdle
    /\ RenderIdle
    /\ MainIdle
    /\ ApiIdle

NextHelpers ==
    \/ ParseSquashIdCall /\ UNCHANGED <<squashVars, emailVars, parserVars, loaderVars, renderVars, mainVars, apiVars>>
    \/ ExtractFromParsed /\ UNCHANGED <<squashVars, emailVars, parserVars, loaderVars, renderVars, mainVars, apiVars>>
    \/ GetSquashTMClient /\ UNCHANGED <<squashVars, emailVars, parserVars, loaderVars, renderVars, mainVars, apiVars>>

SpecHelpers == InitHelperCalls /\ [][NextHelpers]_vars

\* toSquashStatus applied to every status word within the bounds
InitStatusCalls ==
    /\ InitSquash /\ ~enabled /\ files = {}
    /\ InitEmail
    /\ ParserIdle
    /\ InitStatuses
    /\ LoaderIdle
    /\ RenderIdle
    /\ MainIdle
    /\ ApiIdle

NextStatuses ==
    ToSquashStatusCall /\ UNCHANGED <<squashVars, emailVars, parserVars, loaderVars, renderVars, mainVars, apiVars>>

SpecStatuses == InitStatusCalls /\ [][NextStatuses]_vars

\* the test data loader: one load against every content of the data
\* directories within the bounds
InitLoads ==
    /\ InitSquash /\ ~enabled /\ files = {}
    /\ InitEmail
    /\ ParserIdle
    /\ HelpersIdle
    /\ InitLoader
    /\ RenderIdle
    /\ MainIdle
    /\ ApiIdle

NextLoads ==
    \/ LoadTestDataCall /\ UNCHANGED <<squashVars, emailVars, parserVars, helperVars, renderVars, mainVars, apiVars>>
    \/ LoadTestDataArrayCall /\ UNCHANGED <<squashVars, emailVars, parserVars, helperVars, renderVars, mainVars, apiVars>>

SpecLoads == InitLoads /\ [][NextLoads]_vars

\* the subject and the body of the mail, generated for every report data and
\* template within the bounds
InitRenders ==
    /\ InitSquash /\ ~enabled /\ files = {}
    /\ InitEmail
    /\ ParserIdle
    /\ HelpersIdle
    /\ LoaderIdle
    /\ InitRender
    /\ MainIdle
    /\ ApiIdle

NextRenders ==
    \/ GenerateSubjectCall
          /\ UNCHANGED <<squashVars, emailVars, parserVars, helperVars, loaderVars,
                         mainVars, apiVars>>
    \/ GenerateHtmlReportCall
          /\ UNCHANGED <<squashVars, emailVars, parserVars, helperVars, loaderVars,
                         mainVars, apiVars>>

SpecRenders == InitRenders /\ [][NextRenders]_vars

\* the report-sending script run once against every report file, SMTP
\* server and template within the bounds
InitMainRuns ==
    /\ InitSquash /\ ~enabled /\ files = {}
    /\ InitEmail
    /\ reportFile \in {"absent", "malformed", "present"}
    /\ IF reportFile = "present"
       THEN \/ report \in ReportInputs
            \/ \E n \in 1..MaxAttempts :
                  \E attempts \in [1..n -> AttemptInputs] : report = ReportOfAttempts(attempts)
       ELSE report = CHOOSE r \in ReportInputs : ~r.suites.defined
    /\ parsed = Pending
    /\ HelpersIdle
    /\ LoaderIdle
    /\ RenderIdle
    /\ InitMain
    /\ ApiIdle

NextMain ==
    \/ MainStart /\ UNCHANGED <<squashVars, emailVars, helperVars, loaderVars, renderVars, apiVars>>
    \/ VerifyResolve /\ UNCHANGED <<parserVars, helperVars, loaderVars, renderVars, apiVars>>
    \/ VerifyReject /\ UNCHANGED <<parserVars, helperVars, loaderVars, renderVars, apiVars>>
    \/ SendMailResolve /\ UNCHANGED <<parserVars, helperVars, loaderVars, renderVars, mainVars, apiVars>>
    \/ SendMailReject /\ UNCHANGED <<parserVars, helperVars, loaderVars, renderVars, mainVars, apiVars>>
    \/ MainAfterSend
          /\ UNCHANGED <<squashVars, emailVars, parserVars, helperVars, loaderVars, renderVars, apiVars>>

SpecMain == InitMainRuns /\ [][NextMain]_vars

\* one request of an ApiClient against every answer within the bounds
InitApi ==
    /\ InitSquash /\ ~enabled /\ files = {}
    /\ InitEmail
    /\ ParserIdle
    /\ HelpersIdle
    /\ LoaderIdle
    /\ RenderIdle
    /\ MainIdle
    /\ ApiIdle

AllButApi ==
    <<squashVars, emailVars, parserVars, helperVars, loaderVars, renderVars, mainVars>>

NextApi ==
    \/ ApiRequestCall /\ UNCHANGED AllButApi
    \/ ApiTick /\ UNCHANGED AllButApi
    \/ ApiServerAnswers /\ UNCHANGED AllButApi
    \/ ApiNoAnswer /\ UNCHANGED AllButApi

SpecApi == InitApi /\ [][NextApi]_vars

\* ------------------------------------------------------------------ claims
Logged(level, msg) == \E k \in 1..Len(log) : log[k].level = level /\ log[k].msg = msg

IsPatch(req) == req.method = "PATCH"
IsPost(req) == req.method = "POST"
Accepted(req) == \E k \in 1..Len(remote) : remote[k] = req

\* C1: with integration disabled reportResult returns false for every
\* input, reportDDTResults returns for every input list, neither calls
\* reportResult's remote part: no PATCH and no attachment POST is ever
\* issued.
C1_DisabledIssuesNoRemoteCall ==
    ~enabled =>
        /\ sent = <<>>
        /\ inflight = {}
        /\ remote = <<>>
        /\ (op = "reportResult" => outcome \in {Pending, Returned(FALSE)})
        /\ (op = "reportResult" /\ caller = "done" => outcome = Returned(FALSE))
        /\ (op = "reportDDTResults" => outcome = ReturnedVoid /\ calls = <<>>)

C1_Witness ==
    /\ ~enabled
    /\ op = "reportResult"
    /\ outcome = Returned(FALSE)
    /\ cur.squashId = IdCampTc101
    /\ cur.status = "FAILED"
    /\ cur.screenshotPath = ScreenshotFile

\* C2: with integration enabled and a squashId holding TC-<digits>, a
\* failed PATCH is caught and logged and reportResult resolves to false;
\* no reportResult call ever rejects.
C2_PatchFailureResolvesFalse ==
    /\ pc # "threw"
    /\ (op = "reportResult" => outcome.kind # "threw")
    /\ (op = "reportResult" /\ (\E k \in 1..Len(rejected) : IsPatch(rejected[k])) =>
            /\ enabled
            /\ ~testCaseId.isNull
            /\ ret = FALSE
            /\ Logged("error", "Failed to report to Squash TM")
            /\ outcome \in {Pending, Returned(FALSE)}
            /\ (caller = "done" => outcome = Returned(FALSE)))

C2_Witness ==
    /\ op = "reportResult"
    /\ enabled
    /\ Len(rejected) = 1
    /\ IsPatch(rejected[1])
    /\ outcome = Returned(FALSE)

\* C3: sendReport never throws; when rendering the report throws or the
\* transport's send fails the error is caught and logged and sendReport
\* resolves to false; it resolves to true only when sendMail succeeded.
C3_SendReportNeverThrows ==
    op = "sendReport" =>
        /\ outcome.kind # "threw"
        /\ (outcome = Returned(TRUE) => Len(mailbox) = 1 /\ mailInflight = {})
        /\ (caller = "done" /\ mailbox = <<>> =>
                /\ outcome = Returned(FALSE)
                /\ Logged("error", "Failed to send email report"))
        /\ (generateHtmlReport(mailData, template).threw =>
                /\ caller = "done"
                /\ mailInflight = {}
                /\ mailbox = <<>>)

C3_Witness ==
    /\ op = "sendReport"
    /\ outcome = Returned(FALSE)
    /\ ~generateHtmlReport(mailData, template).threw
    /\ Logged("error", "Failed to send email report")

\* the requests reportResult issues first for each of the calls cs, in order
RECURSIVE PatchesFor(_)
PatchesFor(cs) ==
    IF cs = <<>> THEN <<>>
    ELSE LET tc == extractTestCaseId(cs[1].squashId)
         IN (IF tc.isNull THEN <<>> ELSE <<PatchRequest(tc.str, cs[1])>>)
               \o PatchesFor(Tail(cs))

\* C4: an enabled reportDDTResults calls reportResult once per element in
\* list order with iteration index i for element i, starts the call for
\* element i+1 only when the call for element i has finished, so at most
\* one remote call is in flight and the PATCHes are issued in index order.
C4_BatchIsSequential ==
    op = "reportDDTResults" /\ enabled =>
        /\ Cardinality(inflight) <= 1
        /\ Len(calls) <= Len(results)
        /\ \A k \in 1..Len(calls) :
              /\ calls[k].iterationIndex = k - 1
              /\ calls[k] = [results[k] EXCEPT !.iterationIndex = k - 1]
        /\ Len(calls) - Len(rets) \in {0, 1}
        /\ (inflight # {} => Len(rets) = Len(calls) - 1)
        /\ SelectSeq(sent, IsPatch) = PatchesFor(calls)
        /\ (caller = "done" => Len(calls) = Len(results) /\ Len(rets) = Len(results))

C4_Witness ==
    /\ op = "reportDDTResults"
    /\ enabled
    /\ caller = "done"
    /\ Len(results) >= 2
    /\ Len(SelectSeq(remote, IsPatch)) = Len(results)
    /\ Len(SelectSeq(remote, IsPost)) >= 1

\* number of TRUE entries of a sequence of booleans
RECURSIVE CountTrue(_)
CountTrue(bs) ==
    IF bs = <<>> THEN 0 ELSE (IF bs[1] THEN 1 ELSE 0) + CountTrue(Tail(bs))

\* C5: in reportDDTResults a failure reporting one element (a failed
\* remote call, or no TC id) aborts nothing and rolls nothing back: what
\* earlier elements reported stays in the remote system, every later
\* element is still attempted exactly once, and reportDDTResults does not
\* throw.
C5_BatchSurvivesFailures ==
    op = "reportDDTResults" /\ enabled =>
        /\ outcome.kind # "threw"
        /\ (caller = "done" =>
                /\ outcome = ReturnedVoid
                /\ calls = [k \in 1..Len(results) |-> [results[k] EXCEPT !.iterationIndex = k - 1]]
                /\ Len(rets) = Len(results))
        /\ \A k \in 1..Len(rets) :
              rets[k] => Accepted(PatchRequest(extractTestCaseId(calls[k].squashId).str, calls[k]))
        /\ Len(SelectSeq(remote, IsPatch)) =
              CountTrue(rets) + (IF pc = "post" \/ (pc = "ret" /\ ret) THEN 1 ELSE 0)

C5_Witness ==
    /\ op = "reportDDTResults"
    /\ enabled
    /\ caller = "done"
    /\ Len(rets) >= 2
    /\ rets[1]
    /\ ~rets[2]
    /\ Len(rejected) >= 1
    /\ Len(remote) >= 1

\* C6: an attachment POST is issued only for a result whose status is
\* FAILED, whose screenshotPath is given and names an existing file, and
\* whose PATCH has already succeeded.
C6_AttachmentOnlyForFailedWithFile ==
    \A k \in 1..Len(sent) :
        IsPost(sent[k]) =>
            /\ k > 1
            /\ IsPatch(sent[k - 1])
            /\ Accepted(sent[k - 1])
            /\ sent[k - 1].executionStatus = "FAILED"
            /\ sent[k - 1].url[2] = sent[k].url[2]
            /\ TruthyStr(sent[k].content)
            /\ existsSync(files, sent[k].content)
            /\ (k = Len(sent) /\ pc = "post" =>
                    /\ cur.status = "FAILED"
                    /\ cur.screenshotPath = sent[k].content)

C6_Witness ==
    /\ op = "reportResult"
    /\ caller = "done"
    /\ Len(sent) = 2
    /\ IsPost(sent[2])
    /\ Accepted(sent[2])

\* C7: when the screenshot upload fails after a successful PATCH (the
\* attachment POST is rejected, or reading the file fails) the failure is
\* caught and logged inside the upload and reportResult returns true.
C7_UploadFailureKeepsSuccess ==
    op = "reportResult"
        /\ (\E k \in 1..Len(rejected) : rejected[k].method \in {"POST", "readFileSync"}) =>
        /\ pc # "threw"
        /\ ret = TRUE
        /\ Logged("error", "Failed to upload screenshot")
        /\ ~Logged("error", "Failed to report to Squash TM")
        /\ Len(remote) = 1
        /\ IsPatch(remote[1])
        /\ outcome \in {Pending, Returned(TRUE)}
        /\ (caller = "done" => outcome = Returned(TRUE))

C7_Witness ==
    /\ op = "reportResult"
    /\ outcome = Returned(TRUE)
    /\ Len(rejected) = 1
    /\ IsPost(rejected[1])
    /\ Logged("error", "Failed to upload screenshot")

\* ---- the report as the claims describe it: its test entries in traversal
\* order (a suite's specs first, then its nested suites)
RECURSIVE SpecEntries(_)
SpecEntries(specs) ==
    IF specs = <<>> THEN <<>>
    ELSE [k \in 1..Len(specs[1].tests.items) |->
             [title |-> specs[1].title, attempts |-> specs[1].tests.items[k].results.items]]
         \o SpecEntries(Tail(specs))

RECURSIVE EntriesIn(_)
EntriesIn(ss) ==
    IF ss = <<>> THEN <<>>
    ELSE (SpecEntries(ss[1].specs.items) \o EntriesIn(ss[1].suites.items)) \o EntriesIn(Tail(ss))

HasAttempt(entry) == Len(entry.attempts) >= 1

\* the test entries of the report that were attempted at least once
Executed == SelectSeq(EntriesIn(report.suites.items), HasAttempt)

\* the titles of the specs of the report with at least one attempt, in order
RECURSIVE TitlesOfAttempted(_)
TitlesOfAttempted(entries) ==
    IF entries = <<>> THEN <<>>
    ELSE LET rest == TitlesOfAttempted(Tail(entries))
         IN IF HasAttempt(entries[1]) /\ (rest = <<>> \/ rest[1] # entries[1].title)
            THEN <<entries[1].title>> \o rest
            ELSE rest

ParsedOk == parsed.kind = "returned"
Names(tests) == [k \in 1..Len(tests) |-> tests[k].name]

\* C8 (as claimed): the parser emits exactly one flattened result per spec
\* that has at least one attempt, and none for a spec without attempts.
C8_OneResultPerSpec ==
    ParsedOk =>
        Names(parsed.value.tests) = TitlesOfAttempted(EntriesIn(report.suites.items))

\* C8 (amended): for every tree-shaped report, with suites nested to any
\* depth, the parser emits exactly one flattened result per test entry of a
\* spec (element of spec.tests) that has at least one attempt, named by the
\* spec's title, and none for an entry with zero attempts, which raises no
\* error: for N such entries the output has exactly N results.
C8_OneResultPerAttemptedEntry ==
    /\ (reportFile = "present" => parsed.kind # "threw")
    /\ (ParsedOk =>
            /\ Len(parsed.value.tests) = Len(Executed)
            /\ Names(parsed.value.tests) = [k \in 1..Len(Executed) |-> Executed[k].title])

C8_Witness ==
    /\ ParsedOk
    /\ RightDepth(report.suites.items) >= 2
    /\ NumSpecs(report.suites.items) = 1
    /\ Len(EntriesIn(report.suites.items)) = 2
    /\ Len(parsed.value.tests) = 2

\* C9: the flattened result of a spec with attempts a1..ak takes status and
\* duration from ak (0 when ak has no duration) and has retry count k - 1;
\* attempts [failed, passed] give status passed and retry count 1.
C9_LastAttemptWins ==
    ParsedOk =>
        /\ Len(parsed.value.tests) <= Len(Executed)
        /\ \A k \in 1..Len(parsed.value.tests) :
              LET result == parsed.value.tests[k]
                  attempts == Executed[k].attempts
                  ak == attempts[Len(attempts)]
              IN /\ result.status = ak.status
                 /\ result.duration = (IF ak.duration = NoNumber THEN 0 ELSE ak.duration)
                 /\ result.retries = Len(attempts) - 1
                 /\ (Len(attempts) = 2 /\ attempts[1].status = "failed"
                        /\ attempts[2].status = "passed" =>
                            result.status = "passed" /\ result.retries = 1)

C9_Witness ==
    /\ ParsedOk
    /\ Len(parsed.value.tests) = 1
    /\ Len(Executed[1].attempts) = 2
    /\ Executed[1].attempts[1].status = "failed"
    /\ Executed[1].attempts[2].status = "passed"
    /\ parsed.value.tests[1].status = "passed"
    /\ parsed.value.tests[1].retries = 1

\* C10: for every parsed report totalTests = passed + failed + skipped,
\* totalTests being the number of flattened results, whatever attempt
\* statuses the report contains.
C10_TotalIsSumOfCounts ==
    ParsedOk =>
        /\ parsed.value.summary.totalTests = Len(parsed.value.tests)
        /\ parsed.value.summary.totalTests =
              parsed.value.summary.passed + parsed.value.summary.failed
                 + parsed.value.summary.skipped

\* C12: with integration enabled, a result whose squashId holds no
\* TC-<digits> part makes reportResult log a warning and return false; it
\* issues no PATCH and no attachment POST and raises no exception.
C12_NoTestCaseIdReturnsFalse ==
    op = "reportResult" /\ enabled /\ extractTestCaseId(cur.squashId).isNull =>
        /\ sent = <<>>
        /\ inflight = {}
        /\ remote = <<>>
        /\ pc # "threw"
        /\ ret = FALSE
        /\ Logged("warn", "Could not extract test case ID")
        /\ outcome \in {Pending, Returned(FALSE)}
        /\ (caller = "done" => outcome = Returned(FALSE))

C12_Witness ==
    /\ op = "reportResult"
    /\ enabled
    /\ cur.squashId = IdTcNoDigits
    /\ cur.status = "FAILED"
    /\ cur.screenshotPath = ScreenshotFile
    /\ ScreenshotFile \in files
    /\ outcome = Returned(FALSE)

\* C11: parseSquashId returns the identifier that follows the marker
\* '@squashTM:' in the title ('Some test @squashTM:CAMP-4-TC-101' gives
\* 'CAMP-4-TC-101', whose test-case id is '101'); a title without the marker
\* gives null.
TitleExample == TitleSomeTest \o <<"@", "s", "q", "u", "a", "s", "h", "T", "M", ":">> \o IdCampTc101

HasMarkerAt(s, p) ==
    /\ p + Len(MarkerLower) - 1 <= Len(s)
    /\ \A k \in 1..Len(MarkerLower) : ToLowerChar(s[p + k - 1]) = MarkerLower[k]

C11_ParseSquashIdFindsMarker ==
    parsedId # Pending =>
        LET r == parsedId.value
        IN /\ (testTitle = TitleExample => r = Str(IdCampTc101))
           /\ (r = Str(IdCampTc101) /\ tcOfTitle # Pending
                  => tcOfTitle = Returned(Str(<<"1", "0", "1">>)))
           /\ ((\A p \in 1..Len(testTitle) : ~HasMarkerAt(testTitle, p)) => r = Null)
           /\ (~r.isNull =>
                  /\ r.str # <<>>
                  /\ \E p \in 1..Len(testTitle) :
                        /\ HasMarkerAt(testTitle, p)
                        /\ p + Len(MarkerLower) + Len(r.str) - 1 <= Len(testTitle)
                        /\ SubSeq(testTitle, p + Len(MarkerLower),
                                  p + Len(MarkerLower) + Len(r.str) - 1) = r.str)

C11_Witness ==
    /\ testTitle = TitleExample
    /\ parsedId = Returned(Str(IdCampTc101))
    /\ tcOfTitle = Returned(Str(<<"1", "0", "1">>))

\* C20: getSquashTMClient builds the client at most once per process: the
\* constructor runs exactly once, on the first call, and every call returns
\* the same instance.
C20_SingleClientInstance ==
    /\ constructed <= 1
    /\ (got # <<>> => constructed = 1)
    /\ \A k \in 1..Len(got) : ~got[k].isNull /\ got[k] = got[1] /\ got[k] = squashClient

C20_Witness == Len(got) = MaxGets /\ constructed = 1

\* the home path of a data file, as the documentation lays the tree out
HomePath(fmt, filename) ==
    ((IF fmt = "json" THEN "test-data/json/" ELSE "test-data/yaml/") \o filename) \o ("." \o fmt)

OwnKey(data, key) == \E k \in 1..Len(data.keys) : data.keys[k] = key

OwnValue(data, key) == data.vals[CHOOSE k \in 1..Len(data.keys) : data.keys[k] = key]

\* C13: loadTestDataArray(file, key) returns the sequence stored under key in
\* the loaded record; it fails with 'Key "<key>" not found' when the record
\* has no such key and with 'Key "<key>" is not an array' when the key exists
\* with a value that is not a sequence.
C13_SequenceOrNamedFailure ==
    \A n \in 1..Len(loads) :
        LET c == loads[n]
            l == loadTestData(dataFiles, dataFormatSetting, c.filename, Undefined).out
        IN c.fn = "loadTestDataArray" /\ l.kind = "returned" =>
              (l.value.t = "object" =>
                  IF OwnKey(l.value, c.arrayKey)
                  THEN IF OwnValue(l.value, c.arrayKey).t = "array"
                       THEN c.out = Returned(OwnValue(l.value, c.arrayKey))
                       ELSE c.out = Threw(ErrorOf((("Key \"" \o c.arrayKey)
                                \o "\" is not an array in test data file: ") \o c.filename))
                  ELSE c.out = Threw(ErrorOf((("Key \"" \o c.arrayKey)
                                \o "\" not found in test data file: ") \o c.filename)))

\* the text of a file is not of the format it is read as
Malformed(fmt, file) ==
    IF fmt = "json" THEN file.syntax # "json" ELSE file.syntax = "garbage"

\* C14: loadTestData(base, format?) reads <base>.<ext> from the directory of
\* the selected format, the override when given and the configured format
\* otherwise; an absent file is a thrown "not found" error and malformed
\* content a thrown parse error naming format, path and the parser's
\* message; neither becomes a return value.
C14_LoadReadsSelectedFormat ==
    \A n \in 1..Len(loads) :
        LET c == loads[n]
            fmt == IF c.format # Undefined THEN c.format ELSE dataFormatSetting
            filePath == HomePath(fmt, c.filename)
            file == dataFiles[filePath]
        IN c.fn = "loadTestData" /\ fmt \in DataFormat =>
              /\ (file = Absent =>
                     c.out = Threw(ErrorOf("Test data file not found: " \o filePath)))
              /\ (file.kind = "file" /\ Malformed(fmt, file) =>
                     c.out = Threw(ErrorOf(
                        ((((("Failed to parse " \o (IF fmt = "json" THEN "JSON" ELSE "YAML"))
                            \o " file ") \o filePath) \o ": ")
                            \o (IF fmt = "json" THEN "Unexpected token" ELSE "Unexpected scalar")))))
              /\ (file.kind = "file" /\ ~Malformed(fmt, file) => c.out = Returned(file.doc))

C14_Witness ==
    /\ Len(loads) = 2
    /\ dataFormatSetting = "json"
    /\ loads[1].fn = "loadTestData" /\ loads[1].format = "yaml"
    /\ loads[1].out.kind = "threw"
    /\ dataFiles[HomePath("yaml", "users")] = Garbage
    /\ loads[2].fn = "loadTestData" /\ loads[2].format = Undefined
    /\ loads[2].out = Threw(ErrorOf("Test data file not found: test-data/json/users.json"))

RatesShown(body) ==
    {body[k + 1].s : k \in {j \in 1..(Len(body) - 1) :
                               body[j] \in {Lit("</div><p>Pass Rate: "), Lit(": ")}}}

\* the subject line for a status and a rate
SubjectOf(status, rate, summary) ==
    ((((((status \o " | Test Report | ") \o rate) \o "% Pass Rate | ") \o "QA") \o " | ")
        \o ToString(summary.totalTests)) \o " Tests"

\* C16: for totalTests > 0 the pass rate is round(100 * passed / totalTests)
\* and the subject contains '<rate>% Pass Rate' (passed 8, failed 2, total 10
\* gives '80% Pass Rate'); the subject and the body show the same rate.
C16_PassRateIsRoundedPercent ==
    LET summary == renderData.summary
        rate == ToString((200 * summary.passed + summary.totalTests)
                            \div (2 * summary.totalTests))
    IN subject # Pending /\ summary.totalTests > 0 =>
          /\ \E status \in {"FAILED-GLYPH FAILED", "PASSED-GLYPH PASSED"} :
                subject.value = SubjectOf(status, rate, summary)
          /\ (html.kind = "returned" => RatesShown(html.value) = {rate})

\* C17: the overall glyph and colour of the subject and of the body depend
\* on failed > 0 alone, and the subject and the body agree.
C17_StatusFollowsFailedCount ==
    LET summary == renderData.summary
        bad == summary.failed > 0
    IN /\ (subject # Pending =>
              subject.value = SubjectOf(IF bad THEN "FAILED-GLYPH FAILED"
                                        ELSE "PASSED-GLYPH PASSED",
                                        PassRate(summary), summary))
       /\ (html.kind = "returned" =>
              \A k \in 1..(Len(html.value) - 1) :
                 /\ (html.value[k] \in {Lit("><h1>"), Lit(">")} =>
                        html.value[k + 1].s = IF bad THEN "FAILED-GLYPH" ELSE "PASSED-GLYPH")
                 /\ (html.value[k] = Lit("<div style=background-color:") =>
                        html.value[k + 1].s = IF bad THEN "#dc3545" ELSE "#28a745"))

C17_Witness ==
    /\ subject # Pending
    /\ html.kind = "returned"
    /\ renderTemplate = [state |-> "absent"]
    /\ renderData.summary.failed = 0
    /\ renderData.summary.passed < renderData.summary.totalTests
    /\ renderData.summary.skipped = 0

PlaceholderNames ==
    {"{{PROJECT_NAME}}", "{{ENVIRONMENT}}", "{{TOTAL_TESTS}}", "{{PASSED}}", "{{FAILED}}",
     "{{SKIPPED}}", "{{PASS_RATE}}", "{{DURATION}}", "{{START_TIME}}", "{{END_TIME}}",
     "{{STATUS_EMOJI}}", "{{STATUS_COLOR}}", "{{BUILD_URL}}", "{{TEST_RESULTS_ROWS}}"}

\* C18: after generateHtmlReport every occurrence in the template of each of
\* the 13 named placeholders and of {{TEST_RESULTS_ROWS}} is replaced, also
\* when a placeholder occurs more than once.
C18_NoPlaceholderLeft ==
    html.kind = "returned" =>
        \A k \in 1..Len(html.value) :
            ~(html.value[k].o = "t" /\ html.value[k].s \in PlaceholderNames)

\* the text that belongs in place of a placeholder
ValueFor(name, data) ==
    IF name = "{{TEST_RESULTS_ROWS}}" THEN TestRows(data.tests)
    ELSE LET reps == Replacements(data)
         IN reps[CHOOSE k \in 1..Len(reps) : reps[k].name = name].value

\* every placeholder of the template in text gives way to its value, as is
RECURSIVE Substituted(_, _)
Substituted(text, data) ==
    IF text = <<>> THEN <<>>
    ELSE (IF Head(text).o = "t" /\ Head(text).s \in PlaceholderNames
          THEN ValueFor(Head(text).s, data)
          ELSE <<Head(text)>>) \o Substituted(Tail(text), data)

\* C19: substitution is literal and independent of order: each value stands
\* in the body as it was given and is not scanned again, also when it holds
\* placeholder text or characters of a replacement pattern.
C19_ValuesInsertedVerbatim ==
    html.kind = "returned" =>
        Substituted(html.value, renderData)
            = Substituted(TemplateText(renderTemplate), renderData)

\* the comment as annotated by every part that is present: the iteration
\* marker when an iteration index is given, the test data line when
\* iteration data is given, the duration line when a duration is given
AnnotatedComment(result) ==
    LET c0 == IF result.comment # Undefined THEN result.comment ELSE ""
        c1 == IF result.iterationIndex # NoNumber
              THEN "[DDT Iteration " \o ToString(result.iterationIndex + 1) \o "] " \o c0
              ELSE c0
        c2 == IF result.iterationData # Undefined
              THEN c1 \o "\nTest Data: " \o result.iterationData
              ELSE c1
    IN IF result.duration # NoNumber
       THEN c2 \o "\nDuration: " \o ToString(result.duration) \o "ms"
       ELSE c2

\* C22: the comment sent with a result is the caller's comment annotated
\* with "[DDT Iteration <index+1>]" whenever an iteration index is present,
\* with "Test Data: <iterationData>" whenever iteration data is present and
\* with "Duration: <ms>ms" whenever a duration is present.
C22_CommentCarriesEveryAnnotation ==
    op = "reportResult" =>
        \A k \in 1..Len(sent) :
            IsPatch(sent[k]) => sent[k].comment = AnnotatedComment(cur)

\* the PATCHes issued for the reportResult call on result r
PatchesOf(r) ==
    {k \in 1..Len(sent) : IsPatch(sent[k]) /\ sent[k].comment = BuildComment(r)}

\* a finished reportResult call on r that returned true issued exactly one
\* PATCH, to /iterations/<extracted digits>/test-plan, with r's status
OnePatchFor(r) ==
    LET tc == extractTestCaseId(r.squashId)
    IN /\ Cardinality(PatchesOf(r)) = 1
       /\ \A k \in PatchesOf(r) :
             /\ sent[k].url = <<"iterations", tc.str, "test-plan">>
             /\ tc.str # <<>>
             /\ \A d \in 1..Len(tc.str) : tc.str[d] \in Digits
             /\ sent[k].executionStatus = r.status
             /\ Accepted(sent[k])

\* C23: reportResult returns true if and only if integration is enabled, a
\* test-case id was extracted and the PATCH completed successfully; every
\* call that returns true issued exactly one PATCH, addressed to
\* /iterations/<extracted digits>/test-plan, whose executionStatus equals
\* the result's status.
C23_TrueIffPatchSucceeded ==
    /\ (op = "reportResult" /\ caller = "done" =>
            /\ outcome \in {Returned(TRUE), Returned(FALSE)}
            /\ (outcome = Returned(TRUE) <=>
                    /\ enabled
                    /\ ~extractTestCaseId(cur.squashId).isNull
                    /\ \E k \in 1..Len(remote) : IsPatch(remote[k]))
            /\ (outcome = Returned(TRUE) =>
                    /\ Len(SelectSeq(sent, IsPatch)) = 1
                    /\ OnePatchFor(cur)))
    /\ (op = "reportDDTResults" =>
            \A k \in 1..Len(rets) :
                /\ rets[k] <=>
                      /\ enabled
                      /\ ~extractTestCaseId(calls[k].squashId).isNull
                      /\ \E j \in 1..Len(remote) :
                            IsPatch(remote[j]) /\ remote[j].comment = BuildComment(calls[k])
                /\ (rets[k] => OnePatchFor(calls[k])))

C23_Witness ==
    /\ op = "reportResult"
    /\ caller = "done"
    /\ outcome = Returned(TRUE)
    /\ cur.status = "BLOCKED"
    /\ cur.squashId = IdCampTc101
    /\ Len(sent) = 1
    /\ sent[1].executionStatus = "BLOCKED"
    /\ sent[1].url = <<"iterations", <<"1", "0", "1">>, "test-plan">>

\* C28: reportDDTResults leaves its input unchanged: the results array and
\* each of its elements, a caller-supplied iterationIndex included, stay as
\* the caller passed them while the batch is reported; the position index
\* is applied to a copy of each element and, in what is reported, overrides
\* the caller-supplied iterationIndex.
C28_InputLeftUnchanged ==
    /\ [](op = "reportDDTResults" =>
            /\ results \in DDTBatches
            /\ \A k \in 1..Len(calls) :
                  /\ calls[k].iterationIndex = k - 1
                  /\ calls[k] = [results[k] EXCEPT !.iterationIndex = k - 1]
                  /\ (~extractTestCaseId(calls[k].squashId).isNull =>
                        \E j \in 1..Len(sent) :
                            sent[j].method = "PATCH" /\
                            sent[j].comment = "[DDT Iteration " \o ToString(k) \o "] "))
    /\ [][caller = "reportDDTResults" => results' = results]_vars

C28_Witness ==
    /\ op = "reportDDTResults"
    /\ caller = "done"
    /\ enabled
    /\ Len(results) = 2
    /\ results[2].iterationIndex = 7
    /\ Len(calls) = 2
    /\ calls[2].iterationIndex = 1
    /\ \E j \in 1..Len(remote) : remote[j].method = "PATCH" /\ remote[j].comment = "[DDT Iteration 2] "

\* the attempts of the only test entry of a one-spec report
OnlyAttempts == report.suites.items[1].specs.items[1].tests.items[1].results.items

\* the first n elements of a string
FirstChars(str, n) == [k \in 1..(IF Len(str) < n THEN Len(str) ELSE n) |-> str[k]]

\* the text an error value is reported by: its message, or the error as a
\* string when it carries no message
MessageOrString(error) ==
    IF error.kind = "string" THEN error.value
    ELSE IF error.message.isNull \/ error.message.str = <<>> THEN ObjectObject
    ELSE error.message.str

\* C24: every flattened result's error text is at most 200 characters long
\* and equals the first 200 characters of the last attempt's error message
\* (or of the stringified error when it carries no message); a last attempt
\* without an error yields a result with no error.
C24_ErrorTextIsFirst200 ==
    parsed.kind = "returned" /\ report.suites.defined /\ Len(report.suites.items) = 1
        /\ report.suites.items[1].specs.defined
        /\ Len(report.suites.items[1].specs.items) = 1
        /\ report.suites.items[1].specs.items[1].tests.defined
        /\ Len(report.suites.items[1].specs.items[1].tests.items) = 1
        /\ report.suites.items[1].specs.items[1].tests.items[1].results.defined
        /\ OnlyAttempts # <<>> =>
        /\ Len(parsed.value.tests) = 1
        /\ LET last == OnlyAttempts[Len(OnlyAttempts)]
               shown == parsed.value.tests[1].error
           IN IF last.error = NoError
              THEN shown = Null
              ELSE /\ ~shown.isNull
                   /\ Len(shown.str) <= 200
                   /\ shown.str = FirstChars(MessageOrString(last.error), 200)

C24_Witness ==
    /\ parsed.kind = "returned"
    /\ Len(parsed.value.tests) = 1
    /\ Len(OnlyAttempts) = 2
    /\ OnlyAttempts[1].error = NoError
    /\ OnlyAttempts[2].error = ErrorObject(Str(LongMessage))
    /\ Len(LongMessage) > 200
    /\ parsed.value.tests[1].error = Str(FullMessage)

\* the mails sendReport has handed to the transport
MailsHandedOver == mailInflight \cup {mailbox[k] : k \in 1..Len(mailbox)}

\* C25: when totalTests = 0 the pass-rate computation yields NaN, not 0 and
\* not an exception: sendReport still proceeds to send, and the text "NaN"
\* stands for the pass rate in the subject and in the HTML body.
C25_EmptyRunShowsNaN ==
    op = "sendReport" /\ mailData.summary.totalTests = 0 =>
        /\ outcome.kind # "threw"
        /\ (~generateHtmlReport(mailData, template).threw =>
                /\ (caller = "sendReport" => Cardinality(mailInflight) = 1)
                /\ (caller = "done" =>
                        \/ Len(mailbox) = 1 /\ outcome = Returned(TRUE)
                        \/ /\ mailbox = <<>>
                           /\ outcome = Returned(FALSE)
                           /\ \E k \in 1..Len(log), err \in MailErrors :
                                 log[k] = LogEntry("error", "Failed to send email report", err))
                /\ \A m \in MailsHandedOver :
                      /\ m.subject = SubjectOf("PASSED-GLYPH PASSED", "NaN", mailData.summary)
                      /\ RatesShown(m.html) = {"NaN"})

C25_Witness ==
    /\ op = "sendReport"
    /\ mailData.summary.totalTests = 0
    /\ mailData.tests = <<>>
    /\ outcome = Returned(TRUE)
    /\ Len(mailbox) = 1
    /\ mailbox[1].subject = "PASSED-GLYPH PASSED | Test Report | NaN% Pass Rate | QA | 0 Tests"
    /\ RatesShown(mailbox[1].html) = {"NaN"}

\* a status word with its letters folded to lower case
Folded(status) == [k \in 1..Len(status) |-> ToLowerChar(status[k])]

\* C30: toSquashStatus is total and case-insensitive: "passed" maps to
\* PASSED, "failed" and "timedOut" map to FAILED, "skipped" and every other
\* string map to NOT_RUN; it never returns BLOCKED, UNTESTABLE or SETTLED
\* and never throws.
C30_StatusMappingIsTotal ==
    squashStatus # Pending =>
        /\ squashStatus.kind = "returned"
        /\ squashStatus.value \in {"PASSED", "FAILED", "NOT_RUN"}
        /\ squashStatus.value \notin {"BLOCKED", "UNTESTABLE", "SETTLED"}
        /\ squashStatus.value =
              (IF Folded(playwrightStatus) = WordPassed THEN "PASSED"
               ELSE IF Folded(playwrightStatus) \in {WordFailed, WordTimedout} THEN "FAILED"
               ELSE "NOT_RUN")
        /\ (playwrightStatus = <<"t", "i", "m", "e", "d", "O", "u", "t">> =>
                squashStatus.value = "FAILED")

C30_Witness ==
    /\ playwrightStatus = <<"t", "i", "m", "e", "d", "O", "u", "t">>
    /\ squashStatus = Returned("FAILED")

\* main has made the call named f
MainCalled(f) == \E k \in 1..Len(mainCalls) : mainCalls[k] = f

\* C21: in the report-sending script sendReport is invoked only after
\* verifyConnection has been called and has returned true in the same run;
\* when verification returns false no send is attempted.
C21_SendOnlyAfterVerified ==
    /\ \A k \in 1..Len(mainCalls) :
          mainCalls[k] = "sendReport" =>
              /\ \E j \in 1..(k - 1) : mainCalls[j] = "verifyConnection"
              /\ connected = Returned(TRUE)
    /\ (mainPc # "idle" /\ (op = "sendReport" \/ mailInflight # {} \/ mailbox # <<>>) =>
            connected = Returned(TRUE) /\ MainCalled("sendReport"))
    /\ (connected = Returned(FALSE) =>
            /\ ~MainCalled("sendReport")
            /\ op # "sendReport"
            /\ mailData = NoMail
            /\ mailInflight = {}
            /\ mailbox = <<>>)

C21_Witness ==
    /\ mainPc = "exited"
    /\ mainCalls = <<"parsePlaywrightReport", "verifyConnection", "sendReport">>
    /\ connected = Returned(TRUE)
    /\ Len(mailbox) = 1

\* the run of main ended in the catch of lines 160-164 or at its last line
MainFailed ==
    \/ parsed.kind = "threw"
    \/ connected = Returned(FALSE)
    \/ (op = "sendReport" /\ caller = "done" /\ outcome # Returned(TRUE))

\* C26: in the report-sending script every failure (report file missing or
\* unparseable, SMTP verification false, sendReport false) ends the run with
\* process exit code 1; a missing or unparseable report ends it before any
\* SMTP verification or send is attempted; a run in which sendReport
\* returns true does not exit with code 1.
C26_FailuresExitWithOne ==
    /\ (mainPc \in {"start", "verify", "send"} => exitCode = NoNumber)
    /\ (mainPc = "exited" =>
            /\ exitCode \in {0, 1}
            /\ (MainFailed => exitCode = 1)
            /\ (op = "sendReport" /\ outcome = Returned(TRUE) => exitCode # 1))
    /\ (mainPc \notin {"idle", "start"} /\ reportFile # "present" =>
            /\ parsed.kind = "threw"
            /\ mainPc = "exited"
            /\ exitCode = 1
            /\ ~MainCalled("verifyConnection")
            /\ ~MainCalled("sendReport")
            /\ connected = Pending
            /\ op # "sendReport"
            /\ mailInflight = {}
            /\ mailbox = <<>>)
    /\ (parsed.kind = "threw" \/ connected = Returned(FALSE) =>
            mainPc = "exited" /\ exitCode = 1)

C26_Witness ==
    /\ mainPc = "exited"
    /\ exitCode = 1
    /\ reportFile = "present"
    /\ connected = Returned(TRUE)
    /\ op = "sendReport"
    /\ outcome = Returned(FALSE)
    /\ Logged("error", "Failed to send email report")

\* C29: an ApiClient request (get, post, put, patch, delete, upload) gives
\* any answer for which the server responded, 4xx and 5xx statuses included,
\* as an ApiResponse carrying that status, body and a duration, never as an
\* exception; only a failure without a server response (network error,
\* timeout) is rethrown to the caller.
C29_AnsweredRequestsNeverThrow ==
    apiPc = "done" =>
        IF apiAnswer.responded
        THEN /\ apiOutcome.kind = "returned"
             /\ apiOutcome.value.status = apiAnswer.response.status
             /\ apiOutcome.value.data = apiAnswer.response.data
             /\ apiOutcome.value.duration = apiNow - apiStart
             /\ apiOutcome.value.duration \in 0..MaxElapsed
        ELSE apiOutcome = Threw(apiAnswer.error)

C29_Witness ==
    /\ apiPc = "done"
    /\ apiConfig.method = "POST"
    /\ apiConfig.data = "formData"
    /\ apiAnswer.responded
    /\ apiAnswer.response.status = 503
    /\ apiOutcome.kind = "returned"
    /\ apiOutcome.value.status = 503
    /\ apiOutcome.value.duration = 2

\* the options by which nodemailer's transport takes timeouts
TimeoutOptions == {"connectionTimeout", "greetingTimeout", "socketTimeout", "dnsTimeout"}

\* a started remote call leaves the client only by being settled by the
\* remote side, and a started send only by being settled by the transport
OnlySettledByRemote ==
    /\ \A r \in inflight :
          r \notin inflight' =>
              \/ Len(remote') = Len(remote) + 1 /\ remote'[Len(remote')] = r.req
              \/ Len(rejected') = Len(rejected) + 1 /\ rejected'[Len(rejected')] = r.req
    /\ \A m \in mailInflight :
          m \notin mailInflight' =>
              \/ mailbox' = Append(mailbox, m)
              \/ Len(log') > Len(log) /\ log'[Len(log')].msg = "Failed to send email report"

\* C27: no operation of the reporting pipeline (the Squash TM client's
\* remote calls, the email send) configures a timeout of its own beyond what
\* the transport library applies by default (for the HTTP client: 0, no
\* timeout), and no started call can be cancelled by the caller.
C27_NoOwnTimeout ==
    /\ [](/\ \A r \in inflight : r.timeout = 0 /\ r.signal = Undefined
          /\ TransportOptions \cap TimeoutOptions = {})
    /\ [][OnlySettledByRemote]_vars

\* C27, amended: the Squash TM client gives every remote call a timeout of
\* 30000 ms of its own; the email transport is created without any timeout
\* option; no call carries a cancellation signal, and a started call ends
\* only by being settled by the remote side.
C27_OnlySquashSetsTimeout ==
    /\ [](/\ \A r \in inflight : r.timeout = 30000 /\ r.signal = Undefined
          /\ TransportOptions \cap TimeoutOptions = {})
    /\ [][OnlySettledByRemote]_vars

C27_Witness ==
    /\ op = "reportResult"
    /\ \E r \in inflight : r.req.method = "POST" /\ r.timeout = 30000
    /\ Len(remote) = 1
    /\ remote[1].method = "PATCH"

============================================================================
